---- MODULE Spec2Model ----
(***************************************************************************)
(* switchhub: an undoable finite state machine.                            *)
(*                                                                         *)
(* The model follows the classes of src/state-machine:                     *)
(*   TransitionSet      the ordered registry of transitions                *)
(*   TransitionHistory  the capped stack of records and its cursor         *)
(*   Transitioner       selection of an executable transition, undo, redo  *)
(*   SubscriberSet      the list of callbacks and the notification round   *)
(*   StateMachine       the facade; one action per public method           *)
(*                                                                         *)
(* A JavaScript value that may be undefined is modelled by a string, with  *)
(* Undefined standing for `undefined` (a missing property reads as         *)
(* undefined in JavaScript, so an absent field and an undefined field are  *)
(* the same value here).  A guard is a closure over mutable state of the   *)
(* caller: a transition stores the name of its guard and the variable      *)
(* `conditions` holds what each guard returns when it is called now.       *)
(***************************************************************************)
EXTENDS Integers, Sequences, FiniteSets, TLC

VARIABLES
    transitions,    \* TransitionSet.transitions: the registry, in insertion order
    history,        \* TransitionHistory: [stack, index], stack[1] is index 0
    subscribers,    \* SubscriberSet.subscribers: callbacks, in registration order
    conditions,     \* what each guard closure returns at present
    last,           \* the last public call: its arguments, outcome and deliveries
    streak          \* SpecCap: the moves committed since construction while no
                    \* undo or redo has been committed, -1 after one has

vars == <<transitions, history, subscribers, conditions, last, streak>>

\* ------------------------------------------------------------------ values

Undefined == "undefined"
JsTrue == "true"
JsFalse == "false"
Null == "null"

\* The JavaScript values that are falsy, among those the model uses: a key
\* may be the empty string.
Falsy(value) == value \in {Undefined, Null, ""}

\* ------------------------------------------------------------------ bounds

MaxTransitions == 2
MaxSubscribers == 1
MaxSteps == 52
MaxRegistrations == 3

\* The default cap of the history stack.
HistoryLimit == 50

\* ------------------------------------------------------------- input sets

States == {"parked", "idling", "first_gear"}
Events == {"ignite"}
Guards == {"canCrash"}
GuardReturns == {JsTrue, JsFalse, Undefined}
DataValues == {Undefined, "d1"}
Callbacks == {"subscriberA"}

InitialState == "parked"

\* ----------------------------------------------------------- matchTransition

\* The matcher of the releases before 0.2.1: a falsy predicate field is
\* skipped.
matchTransition_Truthy(transition, predicate) ==
    \A prop \in {"event", "from", "to"} :
        IF Falsy(predicate[prop])
        THEN TRUE
        ELSE predicate[prop] = transition[prop]

\* A predicate field that is undefined or null is a wildcard; any other
\* field must be equal to the transition's field.
matchTransition(transition, predicate) ==
    \A prop \in {"event", "from", "to"} :
        IF predicate[prop] = Undefined \/ predicate[prop] = Null
        THEN TRUE
        ELSE predicate[prop] = transition[prop]

\* A predicate object: the fields not given are undefined.
Predicate(event, from, to) == [event |-> event, from |-> from, to |-> to]

\* ------------------------------------------------------------- TransitionSet

filterTransitions(ts, predicate) ==
    SelectSeq(ts, LAMBDA transition : matchTransition(transition, predicate))

hasTransition(ts, predicate) == Len(filterTransitions(ts, predicate)) > 0

hasEvent(ts, eventName) ==
    Len(filterTransitions(ts, Predicate(eventName, Undefined, Undefined))) > 0

\* The index (from 1) of the first transition that matches, or 0 (for -1).
findIndex(ts, predicate) ==
    IF \E index \in 1..Len(ts) : matchTransition(ts[index], predicate)
    THEN CHOOSE index \in 1..Len(ts) :
            /\ matchTransition(ts[index], predicate)
            /\ \A other \in 1..(index - 1) : ~matchTransition(ts[other], predicate)
    ELSE 0

\* splice(index, 1)
Splice(seq, index) == SubSeq(seq, 1, index - 1) \o SubSeq(seq, index + 1, Len(seq))

\* A variant that removes every transition that matches.
removeTransition_RemovingAll(ts, transition) ==
    SelectSeq(ts, LAMBDA stored : ~matchTransition(stored, transition))

removeTransition(ts, transition) ==
    LET index == findIndex(ts, transition)
    IN  IF index = 0 THEN ts ELSE Splice(ts, index)

\* A variant that does not append the transition when it replaces one.
addTransition_ReplacingOnly(ts, transition) ==
    IF hasTransition(ts, transition)
    THEN removeTransition(ts, transition)
    ELSE Append(ts, transition)

\* A variant that replaces by from and to alone, whatever the event.
addTransition_IgnoringEvent(ts, transition) ==
    LET predicate == Predicate(Undefined, transition.from, transition.to)
        kept == IF hasTransition(ts, predicate)
                THEN removeTransition(ts, predicate)
                ELSE ts
    IN  Append(kept, transition)

\* A variant that puts the transition in the place of the one it replaces.
addTransition_InPlace(ts, transition) ==
    LET index == findIndex(ts, transition)
    IN  IF index = 0
        THEN Append(ts, transition)
        ELSE [ts EXCEPT ![index] = transition]

addTransition(ts, transition) ==
    LET kept == IF hasTransition(ts, transition)
                THEN removeTransition(ts, transition)
                ELSE ts
    IN  Append(kept, transition)

RECURSIVE addTransitions(_, _)
addTransitions(ts, list) ==
    IF list = <<>> THEN ts
    ELSE addTransition(addTransitions(ts, SubSeq(list, 1, Len(list) - 1)),
                       list[Len(list)])

\* A variant that accepts an empty list.
addEvent_AcceptingEmpty(ts, name, list) ==
    [threw |-> FALSE,
     transitions |->
         addTransitions(ts, [i \in 1..Len(list) |-> [list[i] EXCEPT !.event = name]])]

\* A variant that replaces the transitions the event already has.
addEvent_Replacing(ts, name, list) ==
    IF Len(list) = 0
    THEN [threw |-> TRUE, transitions |-> ts]
    ELSE [threw |-> FALSE,
          transitions |->
              addTransitions(SelectSeq(ts, LAMBDA t : t.event # name),
                             [i \in 1..Len(list) |->
                                 [list[i] EXCEPT !.event = name]])]

\* addEvent: [threw, transitions]; each transition is tagged with the name.
addEvent(ts, name, list) ==
    IF Len(list) = 0
    THEN [threw |-> TRUE, transitions |-> ts]
    ELSE [threw |-> FALSE,
          transitions |->
              addTransitions(ts, [i \in 1..Len(list) |->
                                     [list[i] EXCEPT !.event = name]])]

\* addEvents: the events are added in order; the first one that throws ends
\* the call and what was added before it stays.
RECURSIVE addEvents(_, _)
addEvents(ts, events) ==
    IF events = <<>>
    THEN [threw |-> FALSE, transitions |-> ts]
    ELSE LET first == addEvent(ts, events[1].name, events[1].transitions)
         IN  IF first.threw
             THEN first
             ELSE addEvents(first.transitions, Tail(events))

\* A variant of the loop of removeEvent that walks forwards and steps over
\* the element that follows a removed one.
RECURSIVE removeEventForwards(_, _, _)
removeEventForwards(ts, eventName, index) ==
    IF index > Len(ts) THEN ts
    ELSE IF ts[index].event # eventName
         THEN removeEventForwards(ts, eventName, index + 1)
         ELSE removeEventForwards(Splice(ts, index), eventName, index + 1)

removeEvent_Forwards(ts, eventName) == removeEventForwards(ts, eventName, 1)

\* The loop of removeEvent: from the last index down to the first, an
\* element whose event is the name is spliced out.
RECURSIVE removeEventFrom(_, _, _)
removeEventFrom(ts, eventName, index) ==
    IF index = 0 THEN ts
    ELSE IF ts[index].event # eventName
         THEN removeEventFrom(ts, eventName, index - 1)
         ELSE removeEventFrom(Splice(ts, index), eventName, index - 1)

removeEvent(ts, eventName) == removeEventFrom(ts, eventName, Len(ts))

RECURSIVE removeTransitions(_, _)
removeTransitions(ts, list) ==
    IF list = <<>> THEN ts
    ELSE removeTransitions(removeTransition(ts, list[1]), Tail(list))

RECURSIVE removeEvents(_, _)
removeEvents(ts, eventNames) ==
    IF eventNames = <<>> THEN ts
    ELSE removeEvents(removeEvent(ts, eventNames[1]), Tail(eventNames))

\* The transitions that match and whose guard is absent or returns a value
\* other than false when it is called now.
Executable(transition, conds) ==
    IF transition.condition # Undefined
    THEN conds[transition.condition] # JsFalse
    ELSE TRUE

filterExecutableTransitions(ts, predicate, conds) ==
    SelectSeq(filterTransitions(ts, predicate),
              LAMBDA transition : Executable(transition, conds))

\* --------------------------------------------------------- TransitionHistory

NewHistory(initialState) ==
    [stack |-> << [state |-> initialState, event |-> Undefined, data |-> Undefined] >>,
     index |-> 0]

getCurrentRecord(h) == h.stack[h.index + 1]

HasPreviousRecord(h) == h.index + 1 < Len(h.stack)
getPreviousRecord(h) == h.stack[h.index + 2]

HasNextRecord(h) == h.index > 0
getNextRecord(h) == h.stack[h.index]

\* Variants of addRecord: one that never evicts, one that keeps the records
\* newer than the cursor.
addRecord_Unbounded(h, record) ==
    [stack |-> <<record>> \o SubSeq(h.stack, h.index + 1, Len(h.stack)), index |-> 0]

addRecord_KeepingNewer(h, record) ==
    LET grown == <<record>> \o h.stack
    IN  [stack |-> IF Len(grown) > HistoryLimit THEN SubSeq(grown, 1, HistoryLimit) ELSE grown,
         index |-> 0]

\* Drop the records in front of the cursor, put the new record in front,
\* reset the cursor and evict the oldest record beyond the limit.
addRecord(h, record) ==
    LET kept == SubSeq(h.stack, h.index + 1, Len(h.stack))
        grown == <<record>> \o kept
    IN  [stack |-> IF Len(grown) > HistoryLimit
                   THEN SubSeq(grown, 1, HistoryLimit)
                   ELSE grown,
         index |-> 0]

rewindHistory(h) ==
    [h EXCEPT !.index = IF h.index + 1 < Len(h.stack) THEN h.index + 1 ELSE Len(h.stack) - 1]

forwardHistory(h) ==
    [h EXCEPT !.index = IF h.index > 0 THEN h.index - 1 ELSE 0]

getHistory(h) == [index |-> h.index, stack |-> h.stack]

\* -------------------------------------------------------------- Transitioner

\* transitions[0] of an empty array is undefined.
NoTransition ==
    [event |-> Undefined, from |-> Undefined, to |-> Undefined,
     condition |-> Undefined, undoable |-> FALSE]

\* A variant that takes the candidate registered last.
First_TakingLast(found) == IF Len(found) > 0 THEN found[Len(found)] ELSE NoTransition

First(found) == IF Len(found) > 0 THEN found[1] ELSE NoTransition

findExecutableTransition(ts, conds, toState, fromState) ==
    First(filterExecutableTransitions(ts, Predicate(Undefined, fromState, toState), conds))

\* A variant that looks the event up from any origin.
findExecutableTransitionByEvent_AnyOrigin(ts, conds, event, fromState) ==
    First(filterExecutableTransitions(ts, Predicate(event, Undefined, Undefined), conds))

findExecutableTransitionByEvent(ts, conds, event, fromState) ==
    First(filterExecutableTransitions(ts, Predicate(event, fromState, Undefined), conds))

\* The error a method throws: its constructor and the parts of its message.
NoError == [name |-> Undefined, message |-> <<>>]

\* throw new Error(`Unable to transition from "${fromState}" to "${toState}"`)
transitionError(ts, toState, fromState) ==
    IF \/ ~hasTransition(ts, Predicate(Undefined, fromState, Undefined))
       \/ ~hasTransition(ts, Predicate(Undefined, Undefined, toState))
    THEN [name |-> "Error",
          message |-> <<"Unable to transition from", fromState, "to", toState>>]
    ELSE NoError

\* throw new Error(`Unable to trigger "${event}" and transition from "${fromState}"`)
triggerEventError(ts, event, fromState) ==
    IF \/ ~hasEvent(ts, event)
       \/ ~hasTransition(ts, Predicate(Undefined, fromState, Undefined))
    THEN [name |-> "Error",
          message |-> <<"Unable to trigger", event, "and transition from", fromState>>]
    ELSE NoError

\* A variant that only asks whether a transition is registered.
canTransition_IgnoringGuards(ts, conds, toState, fromState) ==
    hasTransition(ts, Predicate(Undefined, fromState, toState))

canTransition(ts, conds, toState, fromState) ==
    findExecutableTransition(ts, conds, toState, fromState) # NoTransition

\* A variant that does not look at the undoable mark.
getTransitionForUndo_AnyTransition(ts, h, conds) ==
    IF ~HasPreviousRecord(h)
    THEN NoTransition
    ELSE findExecutableTransition(ts, conds, getCurrentRecord(h).state,
                                  getPreviousRecord(h).state)

getTransitionForUndo(ts, h, conds) ==
    IF ~HasPreviousRecord(h)
    THEN NoTransition
    ELSE LET currentState == getCurrentRecord(h).state
             state == getPreviousRecord(h).state
             transition == findExecutableTransition(ts, conds, currentState, state)
         IN  IF transition = NoTransition \/ ~transition.undoable
             THEN NoTransition
             ELSE transition

\* A variant that looks the transition up in the direction of the undo.
getTransitionForRedo_Backwards(ts, h, conds) ==
    IF ~HasNextRecord(h)
    THEN NoTransition
    ELSE LET transition == findExecutableTransition(ts, conds, getCurrentRecord(h).state,
                                                    getNextRecord(h).state)
         IN  IF transition = NoTransition \/ ~transition.undoable
             THEN NoTransition
             ELSE transition

\* A variant that does not call the guards again.
getTransitionForRedo_IgnoringGuards(ts, h, conds) ==
    IF ~HasNextRecord(h)
    THEN NoTransition
    ELSE LET transition == First(filterTransitions(ts,
                                Predicate(Undefined, getCurrentRecord(h).state,
                                          getNextRecord(h).state)))
         IN  IF transition = NoTransition \/ ~transition.undoable
             THEN NoTransition
             ELSE transition

getTransitionForRedo(ts, h, conds) ==
    IF ~HasNextRecord(h)
    THEN NoTransition
    ELSE LET currentState == getCurrentRecord(h).state
             state == getNextRecord(h).state
             transition == findExecutableTransition(ts, conds, state, currentState)
         IN  IF transition = NoTransition \/ ~transition.undoable
             THEN NoTransition
             ELSE transition

canUndo(ts, h, conds) == getTransitionForUndo(ts, h, conds) # NoTransition

canRedo(ts, h, conds) == getTransitionForRedo(ts, h, conds) # NoTransition

\* The outcome of a Transitioner method: whether it threw, the history it
\* leaves, whether it fired the callback and with which payload.
NoPayload == [from |-> Undefined, to |-> Undefined]

Threw(h) == [threw |-> TRUE, history |-> h, called |-> FALSE, payload |-> NoPayload]
Ignored(h) == [threw |-> FALSE, history |-> h, called |-> FALSE, payload |-> NoPayload]
Done(h, payload) == [threw |-> FALSE, history |-> h, called |-> TRUE, payload |-> payload]

\* Variants of transition(): one that takes the first registered transition
\* whatever its guard returns, one that throws only when both states are
\* unknown.
Transitioner_transition_IgnoringGuards(ts, h, conds, toState, fromState, data) ==
    IF \/ ~hasTransition(ts, Predicate(Undefined, fromState, Undefined))
       \/ ~hasTransition(ts, Predicate(Undefined, Undefined, toState))
    THEN Threw(h)
    ELSE LET transition == First(filterTransitions(ts, Predicate(Undefined, fromState, toState)))
         IN  IF transition # NoTransition
             THEN Done(addRecord(h, [data |-> data, event |-> Undefined,
                                     state |-> transition.to]),
                       [from |-> transition.from, to |-> transition.to])
             ELSE Ignored(h)

Transitioner_transition_ThrowingOnBoth(ts, h, conds, toState, fromState, data) ==
    IF /\ ~hasTransition(ts, Predicate(Undefined, fromState, Undefined))
       /\ ~hasTransition(ts, Predicate(Undefined, Undefined, toState))
    THEN Threw(h)
    ELSE LET transition == findExecutableTransition(ts, conds, toState, fromState)
         IN  IF transition # NoTransition
             THEN Done(addRecord(h, [data |-> data, event |-> Undefined,
                                     state |-> transition.to]),
                       [from |-> transition.from, to |-> transition.to])
             ELSE Ignored(h)

\* A variant that fires the callback also when no transition can be taken.
Transitioner_transition_CallingBackAlways(ts, h, conds, toState, fromState, data) ==
    IF \/ ~hasTransition(ts, Predicate(Undefined, fromState, Undefined))
       \/ ~hasTransition(ts, Predicate(Undefined, Undefined, toState))
    THEN Threw(h)
    ELSE LET transition == findExecutableTransition(ts, conds, toState, fromState)
         IN  IF transition # NoTransition
             THEN Done(addRecord(h, [data |-> data, event |-> Undefined,
                                     state |-> transition.to]),
                       [from |-> transition.from, to |-> transition.to])
             ELSE Done(h, [from |-> fromState, to |-> toState])

\* A variant that returns at once when the state asked for is the state
\* the machine is in.
Transitioner_transition_SkippingSameState(ts, h, conds, toState, fromState, data) ==
    IF \/ ~hasTransition(ts, Predicate(Undefined, fromState, Undefined))
       \/ ~hasTransition(ts, Predicate(Undefined, Undefined, toState))
    THEN Threw(h)
    ELSE LET transition == findExecutableTransition(ts, conds, toState, fromState)
         IN  IF transition # NoTransition /\ toState # fromState
             THEN Done(addRecord(h, [data |-> data, event |-> Undefined,
                                     state |-> transition.to]),
                       [from |-> transition.from, to |-> transition.to])
             ELSE Ignored(h)

Transitioner_transition(ts, h, conds, toState, fromState, data) ==
    IF \/ ~hasTransition(ts, Predicate(Undefined, fromState, Undefined))
       \/ ~hasTransition(ts, Predicate(Undefined, Undefined, toState))
    THEN Threw(h)
    ELSE LET transition == findExecutableTransition(ts, conds, toState, fromState)
         IN  IF transition # NoTransition
             THEN Done(addRecord(h, [data |-> data, event |-> Undefined,
                                     state |-> transition.to]),
                       [from |-> transition.from, to |-> transition.to])
             ELSE Ignored(h)

\* Variants of triggerEvent(): one that throws only when both the event and
\* the origin are unknown, one that records the move twice.
Transitioner_triggerEvent_ThrowingOnBoth(ts, h, conds, event, fromState, data) ==
    IF /\ ~hasEvent(ts, event)
       /\ ~hasTransition(ts, Predicate(Undefined, fromState, Undefined))
    THEN Threw(h)
    ELSE LET transition == findExecutableTransitionByEvent(ts, conds, event, fromState)
         IN  IF transition # NoTransition
             THEN Done(addRecord(h, [data |-> data, event |-> event,
                                     state |-> transition.to]),
                       [event |-> transition.event, from |-> transition.from,
                        to |-> transition.to])
             ELSE Ignored(h)

Transitioner_triggerEvent_RecordingTwice(ts, h, conds, event, fromState, data) ==
    IF \/ ~hasEvent(ts, event)
       \/ ~hasTransition(ts, Predicate(Undefined, fromState, Undefined))
    THEN Threw(h)
    ELSE LET transition == findExecutableTransitionByEvent(ts, conds, event, fromState)
         IN  IF transition # NoTransition
             THEN LET record == [data |-> data, event |-> event, state |-> transition.to]
                  IN  Done(addRecord(addRecord(h, record), record),
                           [event |-> transition.event, from |-> transition.from,
                            to |-> transition.to])
             ELSE Ignored(h)

\* A variant that records the state the transition leaves.
Transitioner_triggerEvent_RecordingOrigin(ts, h, conds, event, fromState, data) ==
    IF \/ ~hasEvent(ts, event)
       \/ ~hasTransition(ts, Predicate(Undefined, fromState, Undefined))
    THEN Threw(h)
    ELSE LET transition == findExecutableTransitionByEvent(ts, conds, event, fromState)
         IN  IF transition # NoTransition
             THEN Done(addRecord(h, [data |-> data, event |-> event,
                                     state |-> transition.from]),
                       [event |-> transition.event, from |-> transition.from,
                        to |-> transition.to])
             ELSE Ignored(h)

Transitioner_triggerEvent(ts, h, conds, event, fromState, data) ==
    IF \/ ~hasEvent(ts, event)
       \/ ~hasTransition(ts, Predicate(Undefined, fromState, Undefined))
    THEN Threw(h)
    ELSE LET transition == findExecutableTransitionByEvent(ts, conds, event, fromState)
         IN  IF transition # NoTransition
             THEN Done(addRecord(h, [data |-> data, event |-> event,
                                     state |-> transition.to]),
                       [event |-> transition.event, from |-> transition.from,
                        to |-> transition.to])
             ELSE Ignored(h)

\* Variants of undoTransition(): one that throws when there is nothing to
\* undo, one that sends the data of the record the undo leaves, one that
\* sends no data.
Transitioner_undoTransition_Throwing(ts, h, conds) ==
    LET transition == getTransitionForUndo(ts, h, conds)
    IN  IF transition = NoTransition \/ ~HasPreviousRecord(h)
        THEN Threw(h)
        ELSE Done(rewindHistory(h),
                  [data |-> getPreviousRecord(h).data,
                   event |-> transition.event,
                   from |-> transition.to,
                   to |-> transition.from])

Transitioner_undoTransition_LeftData(ts, h, conds) ==
    LET transition == getTransitionForUndo(ts, h, conds)
    IN  IF transition = NoTransition \/ ~HasPreviousRecord(h)
        THEN Ignored(h)
        ELSE Done(rewindHistory(h),
                  [data |-> getCurrentRecord(h).data,
                   event |-> transition.event,
                   from |-> transition.to,
                   to |-> transition.from])

Transitioner_undoTransition_NoData(ts, h, conds) ==
    LET transition == getTransitionForUndo(ts, h, conds)
    IN  IF transition = NoTransition \/ ~HasPreviousRecord(h)
        THEN Ignored(h)
        ELSE Done(rewindHistory(h),
                  [data |-> Undefined,
                   event |-> transition.event,
                   from |-> transition.to,
                   to |-> transition.from])

\* A variant that drops the records it goes back over instead of moving the
\* cursor.
Transitioner_undoTransition_Popping(ts, h, conds) ==
    LET transition == getTransitionForUndo(ts, h, conds)
    IN  IF transition = NoTransition \/ ~HasPreviousRecord(h)
        THEN Ignored(h)
        ELSE Done([index |-> 0, stack |-> SubSeq(h.stack, h.index + 2, Len(h.stack))],
                  [data |-> getPreviousRecord(h).data,
                   event |-> transition.event,
                   from |-> transition.to,
                   to |-> transition.from])

\* A variant that, at the oldest record, goes round to the newest one.
Transitioner_undoTransition_Wrapping(ts, h, conds) ==
    IF ~HasPreviousRecord(h)
    THEN IF h.index = 0
         THEN Ignored(h)
         ELSE Done([h EXCEPT !.index = 0],
                   [data |-> h.stack[1].data,
                    event |-> Undefined,
                    from |-> getCurrentRecord(h).state,
                    to |-> h.stack[1].state])
    ELSE LET transition == getTransitionForUndo(ts, h, conds)
         IN  IF transition = NoTransition
             THEN Ignored(h)
             ELSE Done(rewindHistory(h),
                       [data |-> getPreviousRecord(h).data,
                        event |-> transition.event,
                        from |-> transition.to,
                        to |-> transition.from])

\* A variant that sends the event kept in the record of the move it undoes.
Transitioner_undoTransition_RecordedEvent(ts, h, conds) ==
    LET transition == getTransitionForUndo(ts, h, conds)
    IN  IF transition = NoTransition \/ ~HasPreviousRecord(h)
        THEN Ignored(h)
        ELSE Done(rewindHistory(h),
                  [data |-> getPreviousRecord(h).data,
                   event |-> getCurrentRecord(h).event,
                   from |-> transition.to,
                   to |-> transition.from])

Transitioner_undoTransition(ts, h, conds) ==
    LET transition == getTransitionForUndo(ts, h, conds)
    IN  IF transition = NoTransition \/ ~HasPreviousRecord(h)
        THEN Ignored(h)
        ELSE Done(rewindHistory(h),
                  [data |-> getPreviousRecord(h).data,
                   event |-> transition.event,
                   from |-> transition.to,
                   to |-> transition.from])

\* A variant that sends the data of the record the redo leaves.
Transitioner_redoTransition_CurrentData(ts, h, conds) ==
    LET transition == getTransitionForRedo(ts, h, conds)
    IN  IF transition = NoTransition \/ ~HasNextRecord(h)
        THEN Ignored(h)
        ELSE Done(forwardHistory(h),
                  [data |-> getCurrentRecord(h).data,
                   event |-> transition.event,
                   from |-> transition.from,
                   to |-> transition.to])

Transitioner_redoTransition(ts, h, conds) ==
    LET transition == getTransitionForRedo(ts, h, conds)
    IN  IF transition = NoTransition \/ ~HasNextRecord(h)
        THEN Ignored(h)
        ELSE Done(forwardHistory(h),
                  [data |-> getNextRecord(h).data,
                   event |-> transition.event,
                   from |-> transition.from,
                   to |-> transition.to])

\* ------------------------------------------------------------- SubscriberSet

\* A variant that delivers the payload as it is built.
omitNil_KeepingAll(object) == object

omitNil(object) ==
    [key \in {k \in DOMAIN object : object[k] # Undefined} |-> object[key]]

addSubscriber(subs, subscriber) == Append(subs, subscriber)

\* indexOf: the index (from 1) of the first occurrence, or 0 (for -1).
indexOf(subs, subscriber) ==
    IF \E index \in 1..Len(subs) : subs[index] = subscriber
    THEN CHOOSE index \in 1..Len(subs) :
            /\ subs[index] = subscriber
            /\ \A other \in 1..(index - 1) : subs[other] # subscriber
    ELSE 0

\* A variant that removes every registration of the callback.
removeSubscriber_RemovingAll(subs, subscriber) ==
    SelectSeq(subs, LAMBDA registered : registered # subscriber)

removeSubscriber(subs, subscriber) ==
    LET index == indexOf(subs, subscriber)
    IN  IF index = 0 THEN subs ELSE Splice(subs, index)

\* The deliveries of one round: each subscriber in turn, with the payload
\* it is called with.
notifySubscribers(subs, payload) ==
    [index \in 1..Len(subs) |->
        [subscriber |-> subs[index], payload |-> omitNil(payload)]]

\* -------------------------------------------------------------- StateMachine

getState(h) == getCurrentRecord(h).state

\* A variant that does not follow the cursor: the state the latest recorded
\* move left.
getPreviousState_IgnoringCursor(h) ==
    IF Len(h.stack) > 1 THEN h.stack[2].state ELSE Undefined

getPreviousState(h) ==
    IF HasPreviousRecord(h) THEN getPreviousRecord(h).state ELSE Undefined

\* How far the most recent calls go through the sequence: a committed move,
\* then undoTransition(), then redoTransition(), with no other call in
\* between.  It keeps the move's endpoints and data and the history right
\* after the move.
NoTrip ==
    [stage |-> 0, from |-> Undefined, to |-> Undefined, data |-> Undefined,
     after |-> NewHistory(Undefined)]

Moved(result, data) ==
    IF result.called
    THEN [stage |-> 1, from |-> result.payload.from, to |-> result.payload.to,
          data |-> data, after |-> result.history]
    ELSE NoTrip

Followed(stage) ==
    IF last.trip.stage = stage - 1 THEN [last.trip EXCEPT !.stage = stage] ELSE NoTrip

\* The record of a public call: the method and its argument, whether it
\* threw, the notification rounds it ran, their deliveries in order and the
\* history before the call.
Call(op, arg, threw, rounds, calls, trip) ==
    [op |-> op, arg |-> arg, threw |-> threw, rounds |-> rounds, calls |-> calls,
     before |-> history, trip |-> trip]

Quiet(op, arg, threw) == Call(op, arg, threw, 0, <<>>, NoTrip)

Created(initialState) ==
    [op |-> "create", arg |-> Undefined, threw |-> FALSE, rounds |-> 0,
     calls |-> <<>>, before |-> NewHistory(initialState), trip |-> NoTrip]

\* The transitions a caller registers.
Transition(event, from, to, condition, undoable) ==
    [event |-> event, from |-> from, to |-> to,
     condition |-> condition, undoable |-> undoable]

TransitionInputs ==
    { Transition("ignite", "parked", "idling", Undefined, TRUE),
      Transition("ignite", "parked", "idling", "canCrash", TRUE),
      Transition(Undefined, "parked", "idling", "canCrash", FALSE),
      Transition("ignite", "parked", "first_gear", Undefined, FALSE),
      Transition(Undefined, "idling", "first_gear", Undefined, TRUE) }

PredicateInputs ==
    { Predicate(Undefined, "parked", "idling"),
      Predicate("ignite", "parked", Undefined),
      Predicate(Undefined, Undefined, "first_gear") }

\* The lists a caller passes to addEvent: the transitions are given without
\* the event tag.
EventListInputs ==
    { <<>>,
      << Transition(Undefined, "parked", "idling", Undefined, TRUE) >>,
      << Transition(Undefined, "parked", "idling", "canCrash", TRUE),
         Transition(Undefined, "parked", "first_gear", Undefined, FALSE) >> }

\* StateMachine.create(initialState)
Init ==
    /\ transitions = <<>>
    /\ history = NewHistory(InitialState)
    /\ subscribers = <<>>
    /\ conditions = [g \in Guards |-> JsTrue]
    /\ last = Created(InitialState)
    /\ streak = 0

StateMachine_addTransition(transition) ==
    /\ transitions' = addTransition(transitions, transition)
    /\ last' = Quiet("addTransition", transition, FALSE)
    /\ UNCHANGED <<history, subscribers, conditions>>

StateMachine_addEvent(name, list) ==
    LET result == addEvent(transitions, name, list)
    IN  /\ transitions' = result.transitions
        /\ last' = Quiet("addEvent", name, result.threw)
        /\ UNCHANGED <<history, subscribers, conditions>>

StateMachine_addEvents(events) ==
    LET result == addEvents(transitions, events)
    IN  /\ transitions' = result.transitions
        /\ last' = Quiet("addEvents", events, result.threw)
        /\ UNCHANGED <<history, subscribers, conditions>>

StateMachine_removeTransition(predicate) ==
    /\ transitions' = removeTransition(transitions, predicate)
    /\ last' = Quiet("removeTransition", predicate, FALSE)
    /\ UNCHANGED <<history, subscribers, conditions>>

StateMachine_removeEvent(name) ==
    /\ transitions' = removeEvent(transitions, name)
    /\ last' = Quiet("removeEvent", name, FALSE)
    /\ UNCHANGED <<history, subscribers, conditions>>

StateMachine_addTransitions(list) ==
    /\ transitions' = addTransitions(transitions, list)
    /\ last' = Quiet("addTransitions", list, FALSE)
    /\ UNCHANGED <<history, subscribers, conditions>>

StateMachine_removeTransitions(list) ==
    /\ transitions' = removeTransitions(transitions, list)
    /\ last' = Quiet("removeTransitions", list, FALSE)
    /\ UNCHANGED <<history, subscribers, conditions>>

StateMachine_removeEvents(names) ==
    /\ transitions' = removeEvents(transitions, names)
    /\ last' = Quiet("removeEvents", names, FALSE)
    /\ UNCHANGED <<history, subscribers, conditions>>

\* The callback a StateMachine method hands to the Transitioner runs one
\* notification round with the payload it builds.
Rounds(result) == IF result.called THEN 1 ELSE 0

StateMachine_transition(state, data) ==
    LET result == Transitioner_transition(transitions, history, conditions,
                                          state, getState(history), data)
        calls == IF result.called
                 THEN notifySubscribers(subscribers,
                          [data |-> data, from |-> result.payload.from,
                           to |-> result.payload.to])
                 ELSE <<>>
    IN  /\ history' = result.history
        /\ last' = Call("transition", state, result.threw, Rounds(result), calls,
                        Moved(result, data))
        /\ UNCHANGED <<transitions, subscribers, conditions>>

StateMachine_triggerEvent(event, data) ==
    LET result == Transitioner_triggerEvent(transitions, history, conditions,
                                            event, getState(history), data)
        calls == IF result.called
                 THEN notifySubscribers(subscribers,
                          [data |-> data, event |-> event,
                           from |-> result.payload.from, to |-> result.payload.to])
                 ELSE <<>>
    IN  /\ history' = result.history
        /\ last' = Call("triggerEvent", event, result.threw, Rounds(result), calls,
                        Moved(result, data))
        /\ UNCHANGED <<transitions, subscribers, conditions>>

StateMachine_undoTransition ==
    LET result == Transitioner_undoTransition(transitions, history, conditions)
        calls == IF result.called
                 THEN notifySubscribers(subscribers,
                          [data |-> result.payload.data, event |-> result.payload.event,
                           from |-> result.payload.from, to |-> result.payload.to,
                           undo |-> JsTrue])
                 ELSE <<>>
    IN  /\ history' = result.history
        /\ last' = Call("undoTransition", Undefined, result.threw, Rounds(result),
                        calls, Followed(2))
        /\ UNCHANGED <<transitions, subscribers, conditions>>

StateMachine_redoTransition ==
    LET result == Transitioner_redoTransition(transitions, history, conditions)
        calls == IF result.called
                 THEN notifySubscribers(subscribers,
                          [data |-> result.payload.data, event |-> result.payload.event,
                           from |-> result.payload.from, to |-> result.payload.to,
                           redo |-> JsTrue])
                 ELSE <<>>
    IN  /\ history' = result.history
        /\ last' = Call("redoTransition", Undefined, result.threw, Rounds(result),
                        calls, Followed(3))
        /\ UNCHANGED <<transitions, subscribers, conditions>>

StateMachine_subscribe(subscriber) ==
    /\ subscribers' = addSubscriber(subscribers, subscriber)
    /\ last' = Quiet("subscribe", subscriber, FALSE)
    /\ UNCHANGED <<transitions, history, conditions>>

StateMachine_unsubscribe(subscriber) ==
    /\ subscribers' = removeSubscriber(subscribers, subscriber)
    /\ last' = Quiet("unsubscribe", subscriber, FALSE)
    /\ UNCHANGED <<transitions, history, conditions>>

\* The record of a query: the method, its argument and what it returned.
Answer(op, arg, answer) ==
    [op |-> op, arg |-> arg, threw |-> FALSE, rounds |-> 0, calls |-> <<>>,
     before |-> history, trip |-> NoTrip, answer |-> answer]

\* A query returns without assigning to anything.
Asked(op, arg, answer) ==
    /\ last' = Answer(op, arg, answer)
    /\ UNCHANGED <<transitions, history, subscribers, conditions>>

StateMachine_getState == Asked("getState", Undefined, getState(history))

\* A variant that reads the older record by moving the cursor onto it.
StateMachine_getPreviousState_Rewinding ==
    /\ history' = IF HasPreviousRecord(history) THEN rewindHistory(history) ELSE history
    /\ last' = Answer("getPreviousState", Undefined, getPreviousState(history))
    /\ UNCHANGED <<transitions, subscribers, conditions>>

StateMachine_getPreviousState ==
    Asked("getPreviousState", Undefined, getPreviousState(history))

StateMachine_getHistory == Asked("getHistory", Undefined, getHistory(history))

StateMachine_hasEvent(name) ==
    Asked("hasEvent", name, hasEvent(transitions, name))

StateMachine_hasTransition(predicate) ==
    Asked("hasTransition", predicate, hasTransition(transitions, predicate))

StateMachine_canTransition(state) ==
    Asked("canTransition", state,
          canTransition(transitions, conditions, state, getState(history)))

StateMachine_canUndo ==
    Asked("canUndo", Undefined, canUndo(transitions, history, conditions))

StateMachine_canRedo ==
    Asked("canRedo", Undefined, canRedo(transitions, history, conditions))

\* The caller changes the state a guard closes over.
SetCondition(guard, value) ==
    /\ conditions[guard] # value
    /\ conditions' = [conditions EXCEPT ![guard] = value]
    /\ last' = Quiet("setCondition", guard, FALSE)
    /\ UNCHANGED <<transitions, history, subscribers>>

\* ------------------------------------------------------------ specifications

\* Spec: a machine over three states, configured and driven by its caller.

AddTransitionStep ==
    \E transition \in TransitionInputs :
        /\ Len(addTransition(transitions, transition)) <= MaxTransitions
        /\ StateMachine_addTransition(transition)
        /\ UNCHANGED streak

AddEventStep ==
    \E name \in Events, list \in EventListInputs :
        /\ Len(addEvent(transitions, name, list).transitions) <= MaxTransitions
        /\ StateMachine_addEvent(name, list)
        /\ UNCHANGED streak

RemoveTransitionStep ==
    \E predicate \in PredicateInputs :
        /\ StateMachine_removeTransition(predicate)
        /\ UNCHANGED streak

RemoveEventStep ==
    \E name \in Events :
        /\ StateMachine_removeEvent(name)
        /\ UNCHANGED streak

TransitionStep ==
    \E state \in States, data \in DataValues :
        /\ StateMachine_transition(state, data)
        /\ UNCHANGED streak

TriggerEventStep ==
    \E event \in Events, data \in DataValues :
        /\ StateMachine_triggerEvent(event, data)
        /\ UNCHANGED streak

UndoStep == StateMachine_undoTransition /\ UNCHANGED streak

RedoStep == StateMachine_redoTransition /\ UNCHANGED streak

SubscribeStep ==
    \E subscriber \in Callbacks :
        /\ Len(subscribers) < MaxSubscribers
        /\ StateMachine_subscribe(subscriber)
        /\ UNCHANGED streak

UnsubscribeStep ==
    \E subscriber \in Callbacks :
        /\ StateMachine_unsubscribe(subscriber)
        /\ UNCHANGED streak

SetConditionStep ==
    \E guard \in Guards, value \in GuardReturns :
        /\ SetCondition(guard, value)
        /\ UNCHANGED streak

Next ==
    \/ AddTransitionStep
    \/ AddEventStep
    \/ RemoveTransitionStep
    \/ RemoveEventStep
    \/ TransitionStep
    \/ TriggerEventStep
    \/ UndoStep
    \/ RedoStep
    \/ SubscribeStep
    \/ UnsubscribeStep
    \/ SetConditionStep

Spec == Init /\ [][Next]_vars

\* SpecCap: a machine created with the event "increment", a chain of
\* undoable transitions step_0 -> step_1 -> ... -> step_MaxSteps, long
\* enough for the history to reach its cap.

StepName(i) == "step_" \o ToString(i)

Increment == "increment"

\* The registry after addEvent('increment', [{ from: 'step_0', to: 'step_1',
\* undoable: true }, ...]): no two of the transitions match each other, so
\* each one is appended, tagged with the event.
IncrementTransitions ==
    [i \in 1..MaxSteps |->
        Transition(Increment, StepName(i - 1), StepName(i), Undefined, TRUE)]

\* StateMachine.create('step_0', [{ name: 'increment', transitions }])
InitCap ==
    /\ transitions = IncrementTransitions
    /\ history = NewHistory(StepName(0))
    /\ subscribers = <<>>
    /\ conditions = [g \in Guards |-> JsTrue]
    /\ last = Created(StepName(0))
    /\ streak = 0

CapTriggerEventStep ==
    /\ StateMachine_triggerEvent(Increment, Undefined)
    /\ streak' = IF streak >= 0 /\ history' # history THEN streak + 1 ELSE streak

CapUndoStep ==
    /\ StateMachine_undoTransition
    /\ streak' = IF history' # history THEN -1 ELSE streak

CapRedoStep ==
    /\ StateMachine_redoTransition
    /\ streak' = IF history' # history THEN -1 ELSE streak

\* removeTransition({ from: 'step_0', to: 'step_1' })
CapRemoveTransitionStep ==
    /\ StateMachine_removeTransition(Predicate(Undefined, StepName(0), StepName(1)))
    /\ UNCHANGED streak

\* addEvent('increment', [{ from: 'step_0', to: 'step_1', undoable: true }])
CapAddEventStep ==
    /\ StateMachine_addEvent(Increment,
            << Transition(Undefined, StepName(0), StepName(1), Undefined, TRUE) >>)
    /\ UNCHANGED streak

NextCap ==
    \/ CapTriggerEventStep
    \/ CapUndoStep
    \/ CapRedoStep
    \/ CapRemoveTransitionStep
    \/ CapAddEventStep

SpecCap == InitCap /\ [][NextCap]_vars

\* ----------------------------------------------- SpecSubscribers: the rounds

\* A machine with two transitions and up to MaxRegistrations registrations
\* of two callbacks, moved, undone and redone.
Listeners == {"subscriberA", "subscriberB"}

SampleTransitions ==
    << Transition("ignite", "parked", "idling", Undefined, TRUE),
       Transition(Undefined, "idling", "first_gear", Undefined, TRUE) >>

InitSubs ==
    /\ transitions = SampleTransitions
    /\ history = NewHistory(InitialState)
    /\ subscribers = <<>>
    /\ conditions = [g \in Guards |-> JsTrue]
    /\ last = Created(InitialState)
    /\ streak = 0

SubsSubscribeStep ==
    \E subscriber \in Listeners :
        /\ Len(subscribers) < MaxRegistrations
        /\ StateMachine_subscribe(subscriber)
        /\ UNCHANGED streak

SubsUnsubscribeStep ==
    \E subscriber \in Listeners :
        /\ StateMachine_unsubscribe(subscriber)
        /\ UNCHANGED streak

NextSubs ==
    \/ SubsSubscribeStep
    \/ SubsUnsubscribeStep
    \/ TransitionStep
    \/ TriggerEventStep
    \/ UndoStep
    \/ RedoStep

SpecSubscribers == InitSubs /\ [][NextSubs]_vars

\* ------------------------------------------------ SpecRegistry: the registry

\* A machine whose caller only configures it: two event names, keys that
\* include the empty string, predicates with null and falsy fields, and
\* lists of events, given to the constructor or to addEvents.
MaxEntries == 3

RegistryEvents == {"ignite", "crash"}

Plain(from, to) == Transition(Undefined, from, to, Undefined, TRUE)

Event(name, list) == [name |-> name, transitions |-> list]

RegistryTransitionInputs ==
    { Plain("parked", "idling"),
      Plain("", "idling"),
      Transition("ignite", "parked", "idling", Undefined, TRUE),
      Transition("crash", "idling", "parked", Undefined, TRUE) }

RegistryPredicateInputs ==
    { Predicate(Undefined, "parked", "idling"),
      Predicate(Undefined, "", Undefined),
      Predicate(Undefined, Null, "idling"),
      Predicate("crash", Undefined, Null) }

RegistryListInputs ==
    { <<>>,
      << Plain("parked", "idling") >>,
      << Plain("idling", "parked") >>,
      << Plain("parked", ""), Plain("idling", "parked") >> }

RegistryEventsInputs ==
    { <<>>,
      << Event("ignite", << Plain("parked", "idling") >>) >>,
      << Event("ignite", << Plain("parked", "idling") >>), Event("crash", <<>>) >>,
      << Event("crash", <<>>), Event("ignite", << Plain("parked", "idling") >>) >>,
      << Event("crash", << Plain("idling", "parked") >>),
         Event("ignite", << Plain("idling", "") >>) >> }

\* StateMachine.create(initialState, events): a constructor that throws
\* gives no machine.
InitRegistry ==
    /\ \E events \in RegistryEventsInputs :
          /\ ~addEvents(<<>>, events).threw
          /\ transitions = addEvents(<<>>, events).transitions
    /\ history = NewHistory(InitialState)
    /\ subscribers = <<>>
    /\ conditions = [g \in Guards |-> JsTrue]
    /\ last = Created(InitialState)
    /\ streak = 0

RegistryAddTransitionStep ==
    \E transition \in RegistryTransitionInputs :
        /\ Len(addTransition(transitions, transition)) <= MaxEntries
        /\ StateMachine_addTransition(transition)
        /\ UNCHANGED streak

RegistryAddEventStep ==
    \E name \in RegistryEvents, list \in RegistryListInputs :
        /\ Len(addEvent(transitions, name, list).transitions) <= MaxEntries
        /\ StateMachine_addEvent(name, list)
        /\ UNCHANGED streak

RegistryAddEventsStep ==
    \E events \in RegistryEventsInputs :
        /\ Len(addEvents(transitions, events).transitions) <= MaxEntries
        /\ StateMachine_addEvents(events)
        /\ UNCHANGED streak

RegistryRemoveTransitionStep ==
    \E predicate \in RegistryPredicateInputs :
        /\ StateMachine_removeTransition(predicate)
        /\ UNCHANGED streak

RegistryRemoveEventStep ==
    \E name \in RegistryEvents :
        /\ StateMachine_removeEvent(name)
        /\ UNCHANGED streak

NextRegistry ==
    \/ RegistryAddTransitionStep
    \/ RegistryAddEventStep
    \/ RegistryAddEventsStep
    \/ RegistryRemoveTransitionStep
    \/ RegistryRemoveEventStep

SpecRegistry == InitRegistry /\ [][NextRegistry]_vars

\* ------------------------------------------------- SpecQueries: the queries

\* A machine whose caller configures it, moves it and asks it: every query
\* is a call of its own.
QueryStates == States \cup {"second_gear"}

QueryTransitionInputs ==
    { Transition(Undefined, "parked", "idling", "canCrash", TRUE),
      Transition(Undefined, "idling", "first_gear", Undefined, TRUE) }

QueryPredicateInputs ==
    { Predicate(Undefined, "parked", "idling"),
      Predicate(Undefined, Undefined, "first_gear") }

QueryListInputs == { << Plain("parked", "idling") >> }

\* The lists the caller gives to the methods that take several items.
TransitionListInputs ==
    { << Transition(Undefined, "parked", "idling", "canCrash", TRUE),
         Transition(Undefined, "idling", "first_gear", Undefined, TRUE) >> }

PredicateListInputs ==
    { << Predicate(Undefined, "parked", "idling"),
         Predicate(Undefined, Undefined, "first_gear") >> }

EventNameListInputs == { << "ignite" >> }

EventsInputs ==
    { << Event("ignite", << Plain("parked", "idling") >>), Event("ignite", <<>>) >> }

QueryAddTransitionStep ==
    \E transition \in QueryTransitionInputs :
        /\ Len(addTransition(transitions, transition)) <= MaxTransitions
        /\ StateMachine_addTransition(transition)
        /\ UNCHANGED streak

QueryAddEventStep ==
    \E name \in Events, list \in QueryListInputs :
        /\ Len(addEvent(transitions, name, list).transitions) <= MaxTransitions
        /\ StateMachine_addEvent(name, list)
        /\ UNCHANGED streak

QueryRemoveTransitionStep ==
    \E predicate \in QueryPredicateInputs :
        /\ StateMachine_removeTransition(predicate)
        /\ UNCHANGED streak

AddTransitionsStep ==
    \E list \in TransitionListInputs :
        /\ Len(addTransitions(transitions, list)) <= MaxTransitions
        /\ StateMachine_addTransitions(list)
        /\ UNCHANGED streak

AddEventsStep ==
    \E events \in EventsInputs :
        /\ Len(addEvents(transitions, events).transitions) <= MaxTransitions
        /\ StateMachine_addEvents(events)
        /\ UNCHANGED streak

RemoveTransitionsStep ==
    \E list \in PredicateListInputs :
        /\ StateMachine_removeTransitions(list)
        /\ UNCHANGED streak

RemoveEventsStep ==
    \E names \in EventNameListInputs :
        /\ StateMachine_removeEvents(names)
        /\ UNCHANGED streak

GetStateStep == StateMachine_getState /\ UNCHANGED streak

GetPreviousStateStep == StateMachine_getPreviousState /\ UNCHANGED streak

GetHistoryStep == StateMachine_getHistory /\ UNCHANGED streak

HasEventStep ==
    \E name \in Events : StateMachine_hasEvent(name) /\ UNCHANGED streak

HasTransitionStep ==
    \E predicate \in QueryPredicateInputs :
        StateMachine_hasTransition(predicate) /\ UNCHANGED streak

CanTransitionStep ==
    \E state \in QueryStates : StateMachine_canTransition(state) /\ UNCHANGED streak

CanUndoStep == StateMachine_canUndo /\ UNCHANGED streak

CanRedoStep == StateMachine_canRedo /\ UNCHANGED streak

NextQueries ==
    \/ QueryAddTransitionStep
    \/ QueryAddEventStep
    \/ QueryRemoveTransitionStep
    \/ RemoveEventStep
    \/ TransitionStep
    \/ TriggerEventStep
    \/ UndoStep
    \/ RedoStep
    \/ SubscribeStep
    \/ UnsubscribeStep
    \/ SetConditionStep
    \/ AddTransitionsStep
    \/ AddEventsStep
    \/ RemoveTransitionsStep
    \/ RemoveEventsStep
    \/ GetStateStep
    \/ GetPreviousStateStep
    \/ GetHistoryStep
    \/ HasEventStep
    \/ HasTransitionStep
    \/ CanTransitionStep
    \/ CanUndoStep
    \/ CanRedoStep

SpecQueries == Init /\ [][NextQueries]_vars

\* ------------------------------------- SpecReentrant: callbacks that call back

\* A machine whose subscribers call transition and triggerEvent on it while
\* they are being notified.  JavaScript runs the nested call to its end
\* inside the callback, so a public call and everything its callbacks do is
\* one step.
MaxDepth == 2
MaxListeners == 2

ReentrantCallbacks == {"subscriberA", "shifter", "igniter"}

ReentrantTransitions ==
    << Transition(Undefined, "parked", "idling", Undefined, TRUE),
       Transition(Undefined, "idling", "first_gear", "canCrash", TRUE),
       Transition("ignite", "first_gear", "second_gear", Undefined, TRUE) >>

MoveCall(op, arg, data) == [op |-> op, arg |-> arg, data |-> data]

NoCall == MoveCall("none", Undefined, Undefined)

\* What a callback does with the payload it receives: subscriberA returns,
\* shifter shifts up when the machine is said to idle, igniter triggers
\* ignite when the machine is said to be in first gear, leaver unsubscribes
\* itself and bouncer unsubscribes subscriberA.  A callback stops calling
\* back at depth MaxDepth.
Reaction(subscriber, payload, depth) ==
    IF depth >= MaxDepth THEN NoCall
    ELSE IF subscriber = "shifter" /\ payload.to = "idling"
         THEN MoveCall("transition", "first_gear", "d1")
    ELSE IF subscriber = "igniter" /\ payload.to = "first_gear"
         THEN MoveCall("triggerEvent", "ignite", Undefined)
    ELSE IF subscriber = "leaver"
         THEN MoveCall("unsubscribe", "leaver", Undefined)
    ELSE IF subscriber = "bouncer"
         THEN MoveCall("unsubscribe", "subscriberA", Undefined)
    ELSE NoCall

\* The Transitioner method a public method calls.
TransitionerCall(call, h) ==
    IF call.op = "transition"
    THEN Transitioner_transition(transitions, h, conditions, call.arg, getState(h), call.data)
    ELSE IF call.op = "triggerEvent"
    THEN Transitioner_triggerEvent(transitions, h, conditions, call.arg, getState(h), call.data)
    ELSE IF call.op = "undoTransition"
    THEN Transitioner_undoTransition(transitions, h, conditions)
    ELSE Transitioner_redoTransition(transitions, h, conditions)

\* The payload the public method builds in its callback.
FacadePayload(call, result) ==
    IF call.op = "transition"
    THEN [data |-> call.data, from |-> result.payload.from, to |-> result.payload.to]
    ELSE IF call.op = "triggerEvent"
    THEN [data |-> call.data, event |-> call.arg,
          from |-> result.payload.from, to |-> result.payload.to]
    ELSE IF call.op = "undoTransition"
    THEN [data |-> result.payload.data, event |-> result.payload.event,
          from |-> result.payload.from, to |-> result.payload.to, undo |-> JsTrue]
    ELSE [data |-> result.payload.data, event |-> result.payload.event,
          from |-> result.payload.from, to |-> result.payload.to, redo |-> JsTrue]

\* The machine while a public call runs: its history and subscribers, whether
\* an error is propagating, the rounds started and the deliveries made, each
\* with the round it belongs to, its depth and what getState() returns when
\* the callback is entered.
Running(h, subs) ==
    [history |-> h, subscribers |-> subs, threw |-> FALSE, rounds |-> 0, log |-> <<>>]

Delivery(subscriber, payload, m, round, depth) ==
    [subscriber |-> subscriber, payload |-> omitNil(payload),
     state |-> getState(m.history), round |-> round, depth |-> depth]

RECURSIVE Perform(_, _, _)
RECURSIVE Round(_, _, _, _, _, _)
RECURSIVE React(_, _, _, _, _, _)

\* A variant of the round that calls every subscriber first and lets the
\* calls the callbacks make run after the round.
React(payload, round, index, len, m, depth) ==
    IF m.threw \/ index > len THEN m
    ELSE LET reaction == Reaction(m.subscribers[index], omitNil(payload), depth)
             after == IF reaction = NoCall THEN m
                      ELSE Perform(reaction, m, depth + 1)
         IN  React(payload, round, index + 1, len, after, depth)

Round_Deferring(payload, round, index, len, m, depth) ==
    LET deliveries ==
            [i \in 1..(len - index + 1) |->
                Delivery(m.subscribers[index + i - 1], payload, m, round, depth)]
    IN  React(payload, round, index, len,
              [m EXCEPT !.log = @ \o deliveries], depth)

\* notifySubscribers, as forEach runs it: the callbacks at the indexes below
\* the length the list had when the round began, in order; a callback runs
\* the call it makes to its end before it returns, and an error it raises
\* ends the round.
Round(payload, round, index, len, m, depth) ==
    IF m.threw \/ index > len THEN m
    ELSE IF index > Len(m.subscribers)
    THEN Round(payload, round, index + 1, len, m, depth)
    ELSE LET called ==
                 [m EXCEPT !.log = Append(@,
                     Delivery(m.subscribers[index], payload, m, round, depth))]
             reaction == Reaction(m.subscribers[index], omitNil(payload), depth)
             after == IF reaction = NoCall THEN called
                      ELSE Perform(reaction, called, depth + 1)
         IN  Round(payload, round, index + 1, len, after, depth)

\* unsubscribe, transition, triggerEvent, undoTransition or redoTransition
\* of the facade, called by the caller or by a callback.
Perform(call, m, depth) ==
    IF call.op = "unsubscribe"
    THEN [m EXCEPT !.subscribers = removeSubscriber(@, call.arg)]
    ELSE LET result == TransitionerCall(call, m.history)
         IN  IF result.threw THEN [m EXCEPT !.threw = TRUE]
             ELSE IF ~result.called THEN m
             ELSE Round(FacadePayload(call, result), m.rounds + 1, 1,
                        Len(m.subscribers),
                        [m EXCEPT !.history = result.history, !.rounds = @ + 1],
                        depth)

StateMachine_reentrant(call) ==
    LET m == Perform(call, Running(history, subscribers), 0)
    IN  /\ history' = m.history
        /\ subscribers' = m.subscribers
        /\ last' = Call(call.op, call.arg, m.threw, m.rounds, m.log, NoTrip)
        /\ UNCHANGED <<transitions, conditions>>

InitReentrant ==
    /\ transitions = ReentrantTransitions
    /\ history = NewHistory(InitialState)
    /\ subscribers = <<>>
    /\ conditions = [g \in Guards |-> JsTrue]
    /\ last = Created(InitialState)
    /\ streak = 0

ReentrantSubscribeStep ==
    \E subscriber \in ReentrantCallbacks :
        /\ Len(subscribers) < MaxListeners
        /\ StateMachine_subscribe(subscriber)
        /\ UNCHANGED streak

ReentrantUnsubscribeStep ==
    \E subscriber \in ReentrantCallbacks :
        /\ StateMachine_unsubscribe(subscriber)
        /\ UNCHANGED streak

ReentrantTransitionStep ==
    \E state \in QueryStates, data \in DataValues :
        /\ StateMachine_reentrant(MoveCall("transition", state, data))
        /\ UNCHANGED streak

ReentrantTriggerEventStep ==
    \E event \in Events, data \in DataValues :
        /\ StateMachine_reentrant(MoveCall("triggerEvent", event, data))
        /\ UNCHANGED streak

ReentrantUndoStep ==
    /\ StateMachine_reentrant(MoveCall("undoTransition", Undefined, Undefined))
    /\ UNCHANGED streak

ReentrantRedoStep ==
    /\ StateMachine_reentrant(MoveCall("redoTransition", Undefined, Undefined))
    /\ UNCHANGED streak

NextReentrant ==
    \/ ReentrantSubscribeStep
    \/ ReentrantUnsubscribeStep
    \/ ReentrantTransitionStep
    \/ ReentrantTriggerEventStep
    \/ ReentrantUndoStep
    \/ ReentrantRedoStep
    \/ SetConditionStep

SpecReentrant == InitReentrant /\ [][NextReentrant]_vars

\* ---------------------------------------- SpecSelection: rival candidates
\* A machine whose registry holds several candidates for one request: two
\* transitions of one event from one state, an event-tagged and a plain
\* transition between the same states, a transition from a state to
\* itself.  The states form cycles, so the moves stop when the stack holds
\* MaxRecords records.
MaxCandidates == 2
MaxRecords == 3

SelectionEvents == {"ignite", "crash"}

SelectionTransitionInputs ==
    { Transition("ignite", "parked", "idling", Undefined, TRUE),
      Transition("ignite", "parked", "first_gear", "canCrash", FALSE),
      Transition(Undefined, "parked", "idling", "canCrash", TRUE),
      Transition(Undefined, "parked", "parked", "canCrash", TRUE),
      Transition("crash", "idling", "parked", Undefined, TRUE) }

SelectionPredicateInputs ==
    { Predicate(Undefined, "parked", Undefined),
      Predicate("crash", Undefined, Undefined) }

SelectionAddTransitionStep ==
    \E transition \in SelectionTransitionInputs :
        /\ Len(addTransition(transitions, transition)) <= MaxCandidates
        /\ StateMachine_addTransition(transition)
        /\ UNCHANGED streak

SelectionRemoveTransitionStep ==
    \E predicate \in SelectionPredicateInputs :
        /\ StateMachine_removeTransition(predicate)
        /\ UNCHANGED streak

SelectionTransitionStep ==
    \E state \in States, data \in DataValues :
        /\ Len(history.stack) < MaxRecords
        /\ StateMachine_transition(state, data)
        /\ UNCHANGED streak

SelectionTriggerEventStep ==
    \E event \in SelectionEvents :
        /\ Len(history.stack) < MaxRecords
        /\ StateMachine_triggerEvent(event, Undefined)
        /\ UNCHANGED streak

NextSelection ==
    \/ SelectionAddTransitionStep
    \/ SelectionRemoveTransitionStep
    \/ SelectionTransitionStep
    \/ SelectionTriggerEventStep
    \/ UndoStep
    \/ RedoStep
    \/ SubscribeStep
    \/ UnsubscribeStep
    \/ SetConditionStep

SpecSelection == Init /\ [][NextSelection]_vars

\* ------------------------------------------- SpecEvents: events that come and go
\* The caller of SpecRegistry, who also triggers the events.
RegistryTriggerEventStep ==
    \E event \in RegistryEvents :
        /\ Len(history.stack) < MaxRecords
        /\ StateMachine_triggerEvent(event, Undefined)
        /\ UNCHANGED streak

NextEvents ==
    \/ NextRegistry
    \/ RegistryTriggerEventStep

SpecEvents == InitRegistry /\ [][NextEvents]_vars

\* ------------------------------- SpecLeaving: callbacks that unsubscribe
\* The machine of SpecReentrant with subscribers that unsubscribe, themselves
\* or another, while they are being notified.
LeavingCallbacks == {"subscriberA", "leaver", "bouncer"}

LeavingSubscribeStep ==
    \E subscriber \in LeavingCallbacks :
        /\ Len(subscribers) < MaxListeners
        /\ StateMachine_subscribe(subscriber)
        /\ UNCHANGED streak

LeavingUnsubscribeStep ==
    \E subscriber \in LeavingCallbacks :
        /\ StateMachine_unsubscribe(subscriber)
        /\ UNCHANGED streak

NextLeaving ==
    \/ LeavingSubscribeStep
    \/ LeavingUnsubscribeStep
    \/ ReentrantTransitionStep
    \/ ReentrantTriggerEventStep
    \/ ReentrantUndoStep
    \/ ReentrantRedoStep

SpecLeaving == InitReentrant /\ [][NextLeaving]_vars

\* --------------------------------------------------------------- properties

\* The state the machine was in when the last call was made.
CalledFrom == getState(last.before)

\* A guard that is absent or returns a value other than false.
Passes(transition) ==
    \/ transition.condition = Undefined
    \/ conditions[transition.condition] # JsFalse

Registered == {transitions[i] : i \in 1..Len(transitions)}

\* The last call ran exactly one notification round: every subscriber once.
OneRound ==
    /\ last.rounds = 1
    /\ Len(last.calls) = Len(subscribers)
    /\ \A i \in 1..Len(subscribers) : last.calls[i].subscriber = subscribers[i]

\* The last call changed neither the history nor any subscriber's call count.
NothingHappened ==
    /\ history = last.before
    /\ last.rounds = 0
    /\ last.calls = <<>>

KnownFrom(state) == \E t \in Registered : t.from = state
KnownTo(state) == \E t \in Registered : t.to = state

\* C1: transition(to), called in state `from` when some registered transition
\* leaves `from` and some registered transition enters `to`, commits the move
\* (the state becomes `to`, one notification round) exactly when a registered
\* transition from `from` to `to` has no guard or a guard that does not return
\* false; otherwise the state, the history and the call counts are unchanged.
C1_TransitionCommitsIffExecutable ==
    (last.op = "transition" /\ KnownFrom(CalledFrom) /\ KnownTo(last.arg)) =>
        IF \E t \in Registered : t.from = CalledFrom /\ t.to = last.arg /\ Passes(t)
        THEN /\ ~last.threw
             /\ getState(history) = last.arg
             /\ history.index = 0
             /\ getPreviousState(history) = CalledFrom
             /\ OneRound
        ELSE ~last.threw /\ NothingHappened

\* A transition committed while an earlier candidate's guard returns false.
C1_Witness ==
    /\ last.op = "transition"
    /\ last.rounds = 1
    /\ Len(last.calls) = 1
    /\ \E t \in Registered : t.from = CalledFrom /\ t.to = last.arg /\ ~Passes(t)

\* C2: triggerEvent(e), for a registered event and a state with an outgoing
\* transition, commits a move exactly when a registered transition of e from
\* the current state passes its guard, and the new state is such a
\* transition's `to`; otherwise it is a silent no-op.
C2_TriggerEventCommitsIffExecutable ==
    (/\ last.op = "triggerEvent"
     /\ \E t \in Registered : t.event = last.arg
     /\ KnownFrom(CalledFrom)) =>
        IF \E t \in Registered : t.event = last.arg /\ t.from = CalledFrom /\ Passes(t)
        THEN /\ ~last.threw
             /\ \E t \in Registered :
                    /\ t.event = last.arg /\ t.from = CalledFrom /\ Passes(t)
                    /\ getState(history) = t.to
             /\ history.index = 0
             /\ getCurrentRecord(history).event = last.arg
             /\ OneRound
        ELSE ~last.threw /\ NothingHappened

\* An event with two candidates of which the first is blocked by its guard.
C2_Witness ==
    /\ last.op = "triggerEvent"
    /\ last.rounds = 1
    /\ Len(last.calls) = 1
    /\ \E t \in Registered : t.event = last.arg /\ t.from = CalledFrom /\ ~Passes(t)
    /\ getState(history) = "first_gear"

\* The calls that move the machine, with their argument.
IsCall(op) == last'.op = op

\* C3: transition(to) raises an error whenever no registered transition
\* leaves the current state or none enters `to`, whatever the guards return;
\* the state, the stack, the cursor and the registry are then unchanged and no
\* subscriber is called.
C3_TransitionThrowsOnUnknownState ==
    [][(/\ IsCall("transition")
        /\ ~KnownFrom(getState(history)) \/ ~KnownTo(last'.arg)) =>
            /\ last'.threw
            /\ history' = history
            /\ transitions' = transitions
            /\ last'.rounds = 0
            /\ last'.calls = <<>>]_vars

\* transition(to) threw although a guard-free transition leaves the state.
C3_Witness ==
    /\ last.op = "transition"
    /\ last.threw
    /\ KnownFrom(CalledFrom)
    /\ ~KnownTo(last.arg)
    /\ subscribers # <<>>

\* C4: triggerEvent(e) raises an error when no stored transition carries e or
\* when no transition leaves the current state; the state, the stack, the
\* cursor and the registry are then unchanged and no subscriber is called.
C4_TriggerEventThrowsOnUnknown ==
    [][(/\ IsCall("triggerEvent")
        /\ \/ ~\E t \in Registered : t.event = last'.arg
           \/ ~KnownFrom(getState(history))) =>
            /\ last'.threw
            /\ history' = history
            /\ transitions' = transitions
            /\ last'.rounds = 0
            /\ last'.calls = <<>>]_vars

\* triggerEvent(e) threw for a registered event in a state nothing leaves.
C4_Witness ==
    /\ last.op = "triggerEvent"
    /\ last.threw
    /\ \E t \in Registered : t.event = last.arg
    /\ ~KnownFrom(CalledFrom)
    /\ subscribers # <<>>

\* C5: in every reachable state the cursor is an index of the stack and the
\* stack holds between 1 and 50 records.
C5_HistoryBounds ==
    /\ 0 <= history.index
    /\ history.index < Len(history.stack)
    /\ 1 <= Len(history.stack)
    /\ Len(history.stack) <= 50

\* A move committed on a full stack after an undo has been committed.
C5_Witness ==
    /\ last.op = "triggerEvent"
    /\ last.rounds = 1
    /\ Len(last.before.stack) = 50
    /\ Len(history.stack) = 50
    /\ streak = -1

\* C6: after N > 50 consecutive successful moves on a fresh machine the stack
\* holds exactly 50 records, the states reached by the last 50 moves, the most
\* recent first.
C6_CapKeepsLastFiftyMoves ==
    streak > 50 =>
        /\ Len(history.stack) = 50
        /\ \A i \in 1..50 : history.stack[i].state = StepName(streak - i + 1)

\* 52 moves in a row: the initial record and two more have been evicted.
C6_Witness ==
    /\ streak = 52
    /\ last.op = "triggerEvent"
    /\ getState(history) = StepName(52)

\* The record a committed move puts on the stack.
MoveRecord ==
    [state |-> last.trip.to, data |-> last.trip.data,
     event |-> IF last.op = "triggerEvent" THEN last.arg ELSE Undefined]

\* C7: a move committed while the cursor is at k > 0 removes the k records in
\* front of the cursor, puts the new record in front and sets the cursor to 0;
\* canRedo() is then false, and a redo does not change the machine.
C7_MoveDiscardsRedoBranch ==
    (/\ last.op \in {"transition", "triggerEvent"}
     /\ last.rounds = 1
     /\ last.before.index > 0) =>
        /\ history.stack =
              <<MoveRecord>> \o SubSeq(last.before.stack, last.before.index + 1,
                                       Len(last.before.stack))
        /\ history.index = 0
        /\ ~canRedo(transitions, history, conditions)
        /\ Transitioner_redoTransition(transitions, history, conditions).history = history

\* A move committed after two undos: two records were discarded.
C7_Witness ==
    /\ last.op \in {"transition", "triggerEvent"}
    /\ last.rounds = 1
    /\ last.before.index = 2
    /\ Len(history.stack) = 2

Min(set) == CHOOSE x \in set : \A y \in set : x <= y

\* The registered transition from one state to another: the first one in
\* insertion order whose guard passes now; 0 when there is none.
Connecting(fromState, toState) ==
    LET candidates == {i \in 1..Len(transitions) :
                          /\ transitions[i].from = fromState
                          /\ transitions[i].to = toState
                          /\ Passes(transitions[i])}
    IN  IF candidates = {} THEN 0 ELSE Min(candidates)

ConnectingIsUndoable(fromState, toState) ==
    /\ Connecting(fromState, toState) # 0
    /\ transitions[Connecting(fromState, toState)].undoable

\* Every delivery of the last call carries this payload: from, to, the mark
\* ("undo" or "redo") and not the other one, and the data when it is defined.
Delivered(from, to, data, mark, other) ==
    \A i \in 1..Len(last.calls) :
        LET payload == last.calls[i].payload
        IN  /\ payload.from = from
            /\ payload.to = to
            /\ mark \in DOMAIN payload
            /\ payload[mark] = JsTrue
            /\ other \notin DOMAIN payload
            /\ IF data = Undefined
               THEN "data" \notin DOMAIN payload
               ELSE "data" \in DOMAIN payload /\ payload.data = data

\* C8: undoTransition() changes the machine exactly when an older record
\* exists and the registered transition from the older record's state to the
\* current state is marked undoable; the cursor then grows by 1, the state
\* becomes the older record's state and the records are unchanged.
C8_UndoIffOlderRecordAndUndoable ==
    last.op = "undoTransition" =>
        LET h == last.before
        IN  IF /\ h.index + 1 < Len(h.stack)
               /\ ConnectingIsUndoable(h.stack[h.index + 2].state, h.stack[h.index + 1].state)
            THEN /\ history.index = h.index + 1
                 /\ history.stack = h.stack
                 /\ getState(history) = h.stack[h.index + 2].state
                 /\ ~last.threw
            ELSE ~last.threw /\ NothingHappened

\* An undo committed over a second candidate while the first one, which is
\* not undoable, is blocked by its guard.
C8_Witness ==
    /\ last.op = "undoTransition"
    /\ last.rounds = 1
    /\ \E t \in Registered :
          /\ t.from = getState(history) /\ t.to = CalledFrom
          /\ ~t.undoable /\ ~Passes(t)

\* C9: redoTransition() changes the machine exactly when the cursor is
\* greater than 0 and the registered transition from the current state to the
\* state of the record at cursor-1 is marked undoable; the cursor then
\* decreases by 1, the state becomes that record's state, the records are
\* unchanged and the subscribers receive from = the state before the redo,
\* to = the new state, data = that record's data and redo: true.
C9_RedoIffNextRecordAndUndoable ==
    last.op = "redoTransition" =>
        LET h == last.before
        IN  IF /\ h.index > 0
               /\ ConnectingIsUndoable(h.stack[h.index + 1].state, h.stack[h.index].state)
            THEN /\ history.index = h.index - 1
                 /\ history.stack = h.stack
                 /\ getState(history) = h.stack[h.index].state
                 /\ ~last.threw
                 /\ OneRound
                 /\ Delivered(CalledFrom, getState(history), h.stack[h.index].data,
                              "redo", "undo")
            ELSE ~last.threw /\ NothingHappened

\* A redo delivered to a subscriber, back to a record whose data differs from
\* the data of the record it leaves.
C9_Witness ==
    /\ last.op = "redoTransition"
    /\ last.rounds = 1
    /\ Len(last.calls) = 1
    /\ getCurrentRecord(history).data = "d1"
    /\ getCurrentRecord(last.before).data = Undefined

C11_UndoRedoSilentNoOps ==
    [][(\/ /\ IsCall("undoTransition")
           /\ \/ ~HasPreviousRecord(history)
              \/ ~ConnectingIsUndoable(getPreviousRecord(history).state, getState(history))
        \/ /\ IsCall("redoTransition")
           /\ history.index = 0) =>
            /\ ~last'.threw
            /\ history' = history
            /\ transitions' = transitions
            /\ subscribers' = subscribers
            /\ last'.rounds = 0
            /\ last'.calls = <<>>]_vars

\* undoTransition() did nothing, with a subscriber listening, over a
\* registered transition from the older state that is not marked undoable.
C11_Witness ==
    /\ last.op = "undoTransition"
    /\ last.rounds = 0
    /\ ~last.threw
    /\ subscribers # <<>>
    /\ HasPreviousRecord(history)
    /\ \E t \in Registered :
          /\ t.from = getPreviousRecord(history).state
          /\ t.to = getState(history)
          /\ Passes(t)
          /\ ~t.undoable

\* Every delivery of the last call has the event key of this value, or no
\* event key when the value is undefined.
DeliveredEvent(event) ==
    \A i \in 1..Len(last.calls) :
        LET payload == last.calls[i].payload
        IN  IF event = Undefined
            THEN "event" \notin DOMAIN payload
            ELSE "event" \in DOMAIN payload /\ payload.event = event

\* C12: a committed undoTransition() notifies with from = the state before
\* the undo, to = the restored older state, undo: true, no redo key, event =
\* the event of the matched transition, and data = the data of the older
\* record, the one the machine returns to.
C12_UndoPayload ==
    (last.op = "undoTransition" /\ last.rounds = 1) =>
        LET h == last.before
            older == h.stack[h.index + 2]
        IN  /\ OneRound
            /\ getState(history) = older.state
            /\ Delivered(CalledFrom, older.state, older.data, "undo", "redo")
            /\ DeliveredEvent(transitions[Connecting(older.state, CalledFrom)].event)

\* An undo of a move by event made with data, back to a record without data.
C12_Witness ==
    /\ last.op = "undoTransition"
    /\ last.rounds = 1
    /\ Len(last.calls) = 1
    /\ "event" \in DOMAIN last.calls[1].payload
    /\ getCurrentRecord(last.before).data = "d1"
    /\ getCurrentRecord(history).data = Undefined

\* C13, as stated: when a move made with data d is undone, the undo
\* notification carries data = d.
C13_UndoCarriesDataOfUndoneMove ==
    (last.trip.stage = 2 /\ last.rounds = 1) =>
        \A i \in 1..Len(last.calls) :
            LET payload == last.calls[i].payload
            IN  IF last.trip.data = Undefined
                THEN "data" \notin DOMAIN payload
                ELSE "data" \in DOMAIN payload /\ payload.data = last.trip.data

\* C13, amended: when a move made with data d is undone, the undo
\* notification carries the data stored in the record the machine returns
\* to, whatever d is; after a first move from the initial state that record
\* is the initial one and the notification has no data key.
C13_UndoCarriesDataOfRestoredRecord ==
    (last.trip.stage = 2 /\ last.rounds = 1) =>
        \A i \in 1..Len(last.calls) :
            LET payload == last.calls[i].payload
                restored == getCurrentRecord(history)
            IN  /\ payload.undo = JsTrue
                /\ payload.to = last.trip.from
                /\ IF restored.data = Undefined
                   THEN "data" \notin DOMAIN payload
                   ELSE "data" \in DOMAIN payload /\ payload.data = restored.data
                /\ history.index + 1 = Len(history.stack) => "data" \notin DOMAIN payload

\* triggerEvent(ignite, d) from the initial state, undone: no data delivered.
C13_Witness ==
    /\ last.trip.stage = 2
    /\ last.rounds = 1
    /\ Len(last.calls) = 1
    /\ last.trip.data = "d1"
    /\ last.trip.from = InitialState
    /\ getCurrentRecord(last.before).event = "ignite"
    /\ "data" \notin DOMAIN last.calls[1].payload

\* C14: canUndo() and canRedo() follow the registry and the guards as they
\* are at the time of the call: in every state canRedo() is true exactly when
\* the cursor is greater than 0 and the transition now registered from the
\* current state to the state of the record at cursor-1, with a guard that
\* passes now, is marked undoable, and redoTransition() does nothing when it
\* is false; the same for canUndo() and undoTransition() with the older
\* record.
C14_CanUndoRedoAreLive ==
    /\ canRedo(transitions, history, conditions)
          <=> /\ history.index > 0
              /\ ConnectingIsUndoable(getState(history), history.stack[history.index].state)
    /\ ~canRedo(transitions, history, conditions)
          => Transitioner_redoTransition(transitions, history, conditions) = Ignored(history)
    /\ canUndo(transitions, history, conditions)
          <=> /\ history.index + 1 < Len(history.stack)
              /\ ConnectingIsUndoable(history.stack[history.index + 2].state, getState(history))
    /\ ~canUndo(transitions, history, conditions)
          => Transitioner_undoTransition(transitions, history, conditions) = Ignored(history)

\* After a move and an undo the guard of the undoable transition was made to
\* return false: the move can no longer be redone.
C14_Witness ==
    /\ last.op = "setCondition"
    /\ history.index > 0
    /\ ~canRedo(transitions, history, conditions)
    /\ \A t \in Registered :
          (t.from = getState(history) /\ t.to = history.stack[history.index].state)
              => t.undoable /\ ~Passes(t)
    /\ \E t \in Registered :
          t.from = getState(history) /\ t.to = history.stack[history.index].state

\* C15: a call to transition, triggerEvent, undoTransition or redoTransition
\* that changes the history invokes each registered subscriber exactly once,
\* and one that fails with an error or changes nothing invokes no subscriber.
C15_OneRoundPerCommittedCall ==
    last.op \in {"transition", "triggerEvent", "undoTransition", "redoTransition"} =>
        /\ history # last.before => ~last.threw /\ OneRound
        /\ (last.threw \/ history = last.before) => last.rounds = 0 /\ last.calls = <<>>

\* A transition refused by its guard with a subscriber listening.
C15_Witness ==
    /\ last.op = "transition"
    /\ ~last.threw
    /\ history = last.before
    /\ subscribers # <<>>
    /\ \E t \in Registered : t.from = CalledFrom /\ t.to = last.arg /\ ~Passes(t)

\* The number of registrations of a callback, and of its calls in a round.
Registrations(subs, fn) == Cardinality({i \in 1..Len(subs) : subs[i] = fn})

Invocations(calls, fn) == Cardinality({i \in 1..Len(calls) : calls[i].subscriber = fn})

\* `after` is `subs` without its element at `index`.
WithoutIndex(subs, after, index) ==
    /\ Len(after) = Len(subs) - 1
    /\ \A j \in 1..Len(after) : after[j] = IF j < index THEN subs[j] ELSE subs[j + 1]

\* C16: a callback subscribed k times is invoked k times in each round;
\* subscribe(fn) adds one registration; unsubscribe(fn) removes exactly the
\* earliest registration of fn and keeps the others in order, and changes
\* nothing, without error, when fn is not registered.
C16_RegistrationsAreCounted ==
    [][/\ \A fn \in Listeners :
              last'.rounds = 1 =>
                  Invocations(last'.calls, fn) = Registrations(subscribers', fn)
       /\ IsCall("subscribe") =>
              /\ Registrations(subscribers', last'.arg)
                    = Registrations(subscribers, last'.arg) + 1
              /\ Len(subscribers') = Len(subscribers) + 1
       /\ IsCall("unsubscribe") =>
              /\ ~last'.threw
              /\ IF Registrations(subscribers, last'.arg) = 0
                 THEN subscribers' = subscribers
                 ELSE \E index \in 1..Len(subscribers) :
                          /\ subscribers[index] = last'.arg
                          /\ \A j \in 1..(index - 1) : subscribers[j] # last'.arg
                          /\ WithoutIndex(subscribers, subscribers', index)]_vars

\* unsubscribe(subscriberA) left one of two registrations of subscriberA,
\* the later one.
C16_Witness ==
    /\ last.op = "unsubscribe"
    /\ last.arg = "subscriberA"
    /\ subscribers = <<"subscriberB", "subscriberA">>

\* C17: in a round the subscribers are invoked in registration order and no
\* delivered payload has a key whose value is undefined: a move made without
\* data has no data key, a direct transition has no event key, and the undo
\* and redo keys are present only on undo and redo notifications.
C17_OrderedRoundsWithoutUndefinedKeys ==
    last.rounds = 1 =>
        /\ Len(last.calls) = Len(subscribers)
        /\ \A i \in 1..Len(last.calls) :
              LET payload == last.calls[i].payload
              IN  /\ last.calls[i].subscriber = subscribers[i]
                  /\ \A key \in DOMAIN payload : payload[key] # Undefined
                  /\ {"from", "to"} \subseteq DOMAIN payload
                  /\ last.op \in {"transition", "triggerEvent"} =>
                        ("data" \in DOMAIN payload <=> last.trip.data # Undefined)
                  /\ last.op = "transition" => "event" \notin DOMAIN payload
                  /\ "undo" \in DOMAIN payload <=> last.op = "undoTransition"
                  /\ "redo" \in DOMAIN payload <=> last.op = "redoTransition"

\* A direct transition without data told to subscriberB, then subscriberA.
C17_Witness ==
    /\ last.op = "transition"
    /\ last.rounds = 1
    /\ last.trip.data = Undefined
    /\ subscribers = <<"subscriberB", "subscriberA">>
    /\ last.calls[1].subscriber = "subscriberB"
    /\ DOMAIN last.calls[1].payload = {"from", "to"}

\* The number of stored transitions a predicate matches.
Matching(ts, predicate) ==
    Cardinality({i \in 1..Len(ts) : matchTransition(ts[i], predicate)})

\* C18, as stated: immediately after addTransition(t), hasTransition(t) is
\* true; immediately after removeTransition(p), hasTransition(p) is false.
C18_AddThenHasRemoveThenHasNot ==
    /\ last.op = "addTransition" => hasTransition(transitions, last.arg)
    /\ last.op = "removeTransition" => ~hasTransition(transitions, last.arg)

\* C18, amended: immediately after addTransition(t), hasTransition(t) is
\* true; immediately after removeTransition(p), hasTransition(p) is false
\* exactly when at most one stored transition matched p before the call.
C18_AddThenHasRemoveFirstMatch ==
    [][/\ IsCall("addTransition") => hasTransition(transitions', last'.arg)
       /\ IsCall("removeTransition") =>
              (~hasTransition(transitions', last'.arg)
                  <=> Matching(transitions, last'.arg) <= 1)]_vars

\* removeTransition(p) removed one transition and another that matches p
\* is still stored.
C18_Witness ==
    /\ last.op = "removeTransition"
    /\ Len(transitions) = 1
    /\ hasTransition(transitions, last.arg)

\* C19: the registry never holds two stored transitions with the same event
\* (or both without an event), the same from and the same to.
C19_NoTwoSameRegistrations ==
    \A i, j \in 1..Len(transitions) :
        i < j => ~(/\ transitions[i].event = transitions[j].event
                   /\ transitions[i].from = transitions[j].from
                   /\ transitions[i].to = transitions[j].to)

\* C20: addEvent(name, []) always fails with an error and leaves the
\* registry, with its order, the history and the subscribers as they were.
C20_AddEmptyEventThrows ==
    [][\A name \in Events :
          StateMachine_addEvent(name, <<>>) =>
              /\ last'.threw
              /\ transitions' = transitions
              /\ \A other \in Events :
                    hasEvent(transitions', other) <=> hasEvent(transitions, other)
              /\ history' = history
              /\ subscribers' = subscribers]_vars

\* addEvent(name, []) threw for an event that is registered.
C20_Witness ==
    /\ last.op = "addEvent"
    /\ last.threw
    /\ Len(transitions) = 2
    /\ hasEvent(transitions, last.arg)

\* C21: when addEvents is given a list that contains an event with no
\* transitions, the call fails and the registry is what it was before the
\* call.
C21_AddEventsIsAllOrNothing ==
    [][(/\ IsCall("addEvents")
        /\ \E i \in 1..Len(last'.arg) : last'.arg[i].transitions = <<>>)
          => /\ last'.threw
             /\ transitions' = transitions]_vars

\* The predicates hasTransition is asked with: each field is left out, null,
\* a falsy key or a key.
ProbePredicates ==
    { Predicate(event, from, to) :
        event \in {Undefined, Null, "ignite"},
        from \in {Undefined, Null, "", "parked"},
        to \in {Undefined, "", "idling"} }

\* Some stored transition is equal to the predicate on every field of the
\* predicate that is not one of the wildcard values.
SomeAgrees(predicate, wildcards) ==
    \E i \in 1..Len(transitions) :
        \A prop \in {"event", "from", "to"} :
            \/ predicate[prop] \in wildcards
            \/ predicate[prop] = transitions[i][prop]

C23_RemoveEventRemovesAllOfTheEvent ==
    [][IsCall("removeEvent") =>
          /\ ~last'.threw
          /\ transitions' =
                SelectSeq(transitions, LAMBDA t : t.event # last'.arg)
          /\ ~hasEvent(transitions', last'.arg)
          /\ (\A i \in 1..Len(transitions) : transitions[i].event # last'.arg)
                => transitions' = transitions]_vars

\* removeEvent(ignite) has run and the registry keeps a transition of
\* another event and a transition without event.
C23_Witness ==
    /\ last.op = "removeEvent"
    /\ last.arg = "ignite"
    /\ ~hasEvent(transitions, "ignite")
    /\ Len(transitions) = 2
    /\ \E i, j \in 1..Len(transitions) :
          /\ transitions[i].event = "crash"
          /\ transitions[j].event = Undefined

\* The transition is stored, hasTransition finds it, and triggerEvent of its
\* event from its origin has it among its candidates.
Kept(ts, transition) ==
    /\ \E j \in 1..Len(ts) : ts[j] = transition
    /\ hasTransition(ts, Predicate(transition.event, transition.from, transition.to))
    /\ LET candidates ==
               filterExecutableTransitions(
                   ts, Predicate(transition.event, transition.from, Undefined),
                   conditions)
       IN  \E j \in 1..Len(candidates) : candidates[j] = transition

\* C24: adding an event name that is already registered, with transitions
\* whose from/to pairs differ from the stored ones of that event, keeps
\* every transition the event had: the old and the new transitions are
\* found by hasTransition and are candidates of triggerEvent(name).
C24_AddEventAccumulates ==
    [][\A name \in RegistryEvents, list \in RegistryListInputs :
          (/\ StateMachine_addEvent(name, list)
           /\ list # <<>>
           /\ hasEvent(transitions, name)
           /\ \A i \in 1..Len(transitions), k \in 1..Len(list) :
                 transitions[i].event = name =>
                     ~(/\ transitions[i].from = list[k].from
                       /\ transitions[i].to = list[k].to))
          => /\ ~last'.threw
             /\ \A i \in 1..Len(transitions) :
                   transitions[i].event = name => Kept(transitions', transitions[i])
             /\ \A k \in 1..Len(list) :
                   Kept(transitions', [list[k] EXCEPT !.event = name])]_vars

\* addEvent(ignite, [idling -> parked]) has run on a machine where ignite
\* had parked -> idling, and both are stored.
C24_Witness ==
    /\ last.op = "addEvent"
    /\ last.arg = "ignite"
    /\ ~last.threw
    /\ Len(transitions) >= 2
    /\ transitions[Len(transitions)] =
           Transition("ignite", "idling", "parked", Undefined, TRUE)
    /\ Kept(transitions, Transition("ignite", "parked", "idling", Undefined, TRUE))

\* C25: canTransition(s) returns true exactly when some registered
\* transition from the current state to s has no guard or a guard that
\* returns a value other than false at the time of the call; it does not
\* throw, also for a state no transition references, and changes nothing.
C25_CanTransitionIffExecutable ==
    [][IsCall("canTransition") =>
          /\ last'.answer
                <=> \E t \in Registered :
                        /\ t.from = getState(history)
                        /\ t.to = last'.arg
                        /\ Passes(t)
          /\ ~last'.threw
          /\ UNCHANGED <<transitions, history, subscribers, conditions>>]_vars

\* canTransition(s) answered true where the only transitions from the
\* current state to s are guarded and the guard, changed since it was
\* registered, returns undefined.
C25_Witness ==
    /\ last.op = "canTransition"
    /\ last.answer
    /\ \E t \in Registered : t.from = getState(history) /\ t.to = last.arg
    /\ \A t \in Registered :
          (t.from = getState(history) /\ t.to = last.arg)
              => t.condition # Undefined /\ conditions[t.condition] = Undefined

\* What getPreviousState() returns according to the position of the cursor:
\* the state of the record at cursor+1, or none when the cursor is at the
\* oldest record.
OlderState ==
    IF history.index + 1 < Len(history.stack)
    THEN history.stack[history.index + 2].state
    ELSE Undefined

\* C26, as stated: getPreviousState() returns the state of the record
\* immediately older than the current one (index cursor+1), and it returns
\* none only for a machine that has never transitioned.
C26_PreviousStateNoneOnlyBeforeFirstMove ==
    last.op = "getPreviousState" =>
        /\ last.answer = OlderState
        /\ last.answer = Undefined => Len(history.stack) = 1

\* C26, amended: getPreviousState() returns the state of the record
\* immediately older than the current one (index cursor+1), and it returns
\* none exactly when there is no such record: for a machine that has never
\* transitioned and whenever undo has brought the cursor to the oldest
\* record of the stack.
C26_PreviousStateFollowsCursor ==
    last.op = "getPreviousState" =>
        /\ last.answer = OlderState
        /\ last.answer = Undefined <=> history.index = Len(history.stack) - 1
        /\ Len(history.stack) = 1 => last.answer = Undefined

\* getPreviousState() returned none on a machine that has moved and was
\* undone back to its oldest record.
C26_Witness ==
    /\ last.op = "getPreviousState"
    /\ last.answer = Undefined
    /\ Len(history.stack) > 1
    /\ history.index = Len(history.stack) - 1

\* The deliveries of the last call, in the order they were made.
Log == last.calls

IsMove == last.op \in {"transition", "triggerEvent", "undoTransition", "redoTransition"}

\* The call a callback makes on delivery k, and whether it finds an
\* executable transition from the state the machine is in at that time.
ReactionAt(k) == Reaction(Log[k].subscriber, Log[k].payload, Log[k].depth)

Succeeds(call, state) ==
    IF call.op = "transition"
    THEN canTransition(transitions, conditions, call.arg, state)
    ELSE /\ call.op = "triggerEvent"
         /\ findExecutableTransitionByEvent(transitions, conditions, call.arg, state)
                # NoTransition

\* The delivery, among the first k, of the round that began last.
Latest(k) == CHOOSE j \in 1..k : \A i \in 1..k : Log[i].round <= Log[j].round

\* C27: when a subscriber calls transition or triggerEvent during a round and
\* the nested move succeeds, the nested move is committed and its round
\* starts at once and runs to completion before the outer round resumes; the
\* subscribers that come later in the outer round receive the outer move's
\* payload while getState() returns the state of the nested move.
C27_NestedMoveRunsInsideTheRound ==
    (IsMove /\ ~last.threw) =>
        /\ \A k \in DOMAIN Log :
              Succeeds(ReactionAt(k), Log[k].state) =>
                  /\ k < Len(Log)
                  /\ Log[k + 1].round > Log[k].round
                  /\ Log[k + 1].depth = Log[k].depth + 1
                  /\ Log[k + 1].subscriber = subscribers[1]
                  /\ Log[k + 1].payload.from = Log[k].state
                  /\ Log[k + 1].state = Log[k + 1].payload.to
        /\ \A a, c \in DOMAIN Log :
              (a < c /\ Log[a].round = Log[c].round) =>
                  /\ Log[c].payload = Log[a].payload
                  /\ Log[c].state = Log[Latest(c)].payload.to
                  /\ \A b \in (a + 1)..(c - 1) :
                        /\ Log[b].round >= Log[a].round
                        /\ Log[b].round > Log[a].round =>
                               Cardinality({i \in (a + 1)..(c - 1) :
                                               Log[i].round = Log[b].round})
                                   = Len(subscribers)

\* A nested move ran between two deliveries of the outer round: the later
\* subscriber received the outer payload in the state of the nested move.
C27_Witness ==
    /\ IsMove
    /\ ~last.threw
    /\ \E a, b, c \in DOMAIN Log :
          /\ a < b /\ b < c
          /\ Log[a].round = Log[c].round
          /\ Log[b].round > Log[a].round
          /\ ReactionAt(a) # NoCall
          /\ Log[c].state = Log[b].payload.to
          /\ Log[c].state # Log[c].payload.to

\* The length the stack has after a committed move made with the history as
\* it was before the last call: the records from the cursor on and the new
\* one, at most the cap.
LengthAfterMove ==
    Min({Len(last.before.stack) - last.before.index + 1, HistoryLimit})

\* C28, as stated: the length of the history stack never decreases from one
\* operation to the next, except when a record is evicted because the cap of
\* 50 records is exceeded.
C28_StackNeverShrinks ==
    \/ Len(history.stack) >= Len(last.before.stack)
    \/ Len(last.before.stack) - last.before.index + 1 > HistoryLimit

\* C28, amended: the length of the history stack decreases from one operation
\* to the next only when a committed transition or triggerEvent is made with
\* the cursor at 2 or more and discards the records in front of the cursor;
\* a committed move leaves min(length - cursor + 1, 50) records, so at the cap
\* the eviction keeps the length at 50, and every other operation, undo and
\* redo included, leaves the length unchanged.
C28_StackShrinksOnlyByDiscardingRedoBranch ==
    /\ Len(history.stack) < Len(last.before.stack)
          => /\ last.op \in {"transition", "triggerEvent"}
             /\ last.before.index >= 2
    /\ (last.op \in {"transition", "triggerEvent"} /\ history # last.before)
          => /\ Len(history.stack) = LengthAfterMove
             /\ history.index = 0
    /\ ~(last.op \in {"transition", "triggerEvent"} /\ history # last.before)
          => Len(history.stack) = Len(last.before.stack)

\* A move committed after two undos left fewer records than there were.
C28_Witness ==
    /\ last.op = "triggerEvent"
    /\ last.before.index >= 2
    /\ Len(history.stack) < Len(last.before.stack)
    /\ Len(history.stack) = LengthAfterMove

\* The calls that register, remove, subscribe or ask, and the calls that move.
ConfiguringCalls ==
    {"addTransition", "addTransitions", "addEvent", "addEvents",
     "removeTransition", "removeTransitions", "removeEvent", "removeEvents",
     "subscribe", "unsubscribe"}

AskingCalls ==
    {"hasTransition", "hasEvent", "canTransition", "canUndo", "canRedo",
     "getState", "getPreviousState", "getHistory"}

MovingCalls == {"transition", "triggerEvent", "undoTransition", "redoTransition"}

\* C29: registration, removal, subscription and query calls leave the history
\* stack, the cursor and the current state unchanged; transition,
\* triggerEvent, undoTransition and redoTransition leave the transition
\* registry and the subscriber list unchanged.
C29_CallsKeepToTheirPart ==
    [][/\ last'.op \in ConfiguringCalls \cup AskingCalls
             => /\ history' = history
                /\ getState(history') = getState(history)
       /\ last'.op \in MovingCalls
             => /\ transitions' = transitions
                /\ subscribers' = subscribers]_vars

\* A query was answered on a machine that has moved, been undone and has
\* transitions and a subscriber.
C29_Witness ==
    /\ last.op \in AskingCalls
    /\ history.index > 0
    /\ Len(transitions) = MaxTransitions
    /\ subscribers # <<>>
    /\ history = last.before

\* Registries in which the event ignite is registered.
IgniteRegistries ==
    { << Transition("ignite", from, to, Undefined, TRUE) >> :
        from \in States, to \in States }

\* C30: the error triggerEvent raises for an event that is not registered can
\* be told apart from the error it raises when the event is registered and
\* the current state has no outgoing transition, and from the error
\* transition raises for unknown states.
C30_UnknownEventErrorIsDistinct ==
    (last.op = "triggerEvent" /\ last.threw /\ ~hasEvent(transitions, last.arg)) =>
        LET raised == triggerEventError(transitions, last.arg, getState(history))
        IN  /\ raised # NoError
            /\ \A other \in IgniteRegistries :
                  ~hasTransition(other, Predicate(Undefined, getState(history), Undefined))
                      => raised # triggerEventError(other, last.arg, getState(history))
            /\ \A state \in QueryStates :
                  raised # transitionError(transitions, state, getState(history))

\* The transitions from a state to itself that can be taken now.
Loops(state) == {t \in Registered : t.from = state /\ t.to = state /\ Passes(t)}

\* C31 as claimed: transition(s) where s is the current state does not notify
\* any subscriber and leaves the current state and the history unchanged.
C31_SameStateIsSilent ==
    [][(IsCall("transition") /\ last'.arg = getState(history)) =>
          /\ last'.calls = <<>>
          /\ history' = history]_vars

\* C31 as amended: transition(s) where s is the current state leaves the
\* current state unchanged; it notifies no subscriber and leaves the history
\* unchanged unless a transition from s to s is registered and its guard
\* passes, and then it commits a record for s and runs one round whose
\* payload has from = to = s.
C31_SameStateMovesOnlyThroughLoop ==
    [][(IsCall("transition") /\ last'.arg = getState(history)) =>
          LET s == getState(history)
          IN  /\ getState(history') = s
              /\ IF Loops(s) # {}
                 THEN /\ ~last'.threw
                      /\ \E data \in DataValues :
                            history' = addRecord(history,
                                [data |-> data, event |-> Undefined, state |-> s])
                      /\ last'.rounds = 1
                      /\ Len(last'.calls) = Len(subscribers)
                      /\ \A k \in DOMAIN last'.calls :
                            /\ last'.calls[k].payload.from = s
                            /\ last'.calls[k].payload.to = s
                 ELSE /\ history' = history
                      /\ last'.rounds = 0
                      /\ last'.calls = <<>>]_vars

\* transition(parked) in the state parked went through a registered loop and
\* the subscriber was told.
C31_Witness ==
    /\ last.op = "transition"
    /\ ~last.threw
    /\ last.arg = getState(last.before)
    /\ last.arg = getState(history)
    /\ Len(history.stack) = Len(last.before.stack) + 1
    /\ Len(last.calls) = 1
    /\ last.calls[1].payload.from = last.calls[1].payload.to

\* The indexes of the registered transitions that a request can use, and
\* among them those whose guard passes now.
Candidates(predicate) ==
    {i \in DOMAIN transitions :
        \A prop \in {"event", "from", "to"} :
            predicate[prop] # Undefined => transitions[i][prop] = predicate[prop]}

PassingCandidates(predicate) == {i \in Candidates(predicate) : Passes(transitions[i])}

\* C32: when several registered transitions match a request, the one
\* executed is the earliest in insertion order whose guard passes now.
\* triggerEvent moves to the `to` of that transition, and a later candidate
\* is used only when the guard of every earlier candidate returns false;
\* transition(state) selects among the candidates with the same from and to
\* in the same way.
C32_EarliestPassingCandidateRuns ==
    [][/\ (IsCall("triggerEvent") /\ ~last'.threw) =>
             LET request == Predicate(last'.arg, getState(history), Undefined)
                 passing == PassingCandidates(request)
             IN  IF passing = {}
                 THEN history' = history
                 ELSE LET chosen == Min(passing)
                      IN  /\ getState(history') = transitions[chosen].to
                          /\ history'.index = 0
                          /\ Len(history'.stack) = Len(history.stack) - history.index + 1
                          /\ \A earlier \in Candidates(request) :
                                earlier < chosen =>
                                    conditions[transitions[earlier].condition] = JsFalse
                          /\ \A k \in DOMAIN last'.calls :
                                last'.calls[k].payload.to = transitions[chosen].to
       /\ (IsCall("transition") /\ ~last'.threw) =>
             LET request == Predicate(Undefined, getState(history), last'.arg)
                 passing == PassingCandidates(request)
             IN  IF passing = {}
                 THEN history' = history
                 ELSE LET chosen == Min(passing)
                      IN  /\ findExecutableTransition(transitions, conditions,
                                 last'.arg, getState(history)) = transitions[chosen]
                          /\ getState(history') = last'.arg
                          /\ history'.index = 0
                          /\ \A earlier \in Candidates(request) :
                                earlier < chosen =>
                                    conditions[transitions[earlier].condition] = JsFalse]_vars

\* triggerEvent(ignite) went to the second transition of the event because
\* the guard of the first returned false.
C32_Witness ==
    /\ last.op = "triggerEvent"
    /\ ~last.threw
    /\ history # last.before
    /\ \E i, j \in DOMAIN transitions :
          /\ i < j
          /\ transitions[i].event = last.arg
          /\ transitions[j].event = last.arg
          /\ transitions[i].from = CalledFrom
          /\ transitions[j].from = CalledFrom
          /\ transitions[i].to # transitions[j].to
          /\ ~Passes(transitions[i])
          /\ getState(history) = transitions[j].to

\* The indexes of the stored transitions that match a predicate.
MatchingIndexes(ts, predicate) ==
    {i \in DOMAIN ts : matchTransition(ts[i], predicate)}

\* C33: addTransition of a transition that matches a stored entry removes
\* that entry (the earliest one that matches) and appends the new transition
\* at the end of the insertion order, after every transition registered
\* before the call; the size of the registry is unchanged by a replacing add
\* and grows by one otherwise.
C33_ReplacingAddMovesToTheEnd ==
    [][IsCall("addTransition") =>
          LET added == last'.arg
              matches == MatchingIndexes(transitions, added)
              size == Len(transitions')
          IN  /\ transitions'[size] = added
              /\ IF matches = {}
                 THEN /\ size = Len(transitions) + 1
                      /\ \A i \in DOMAIN transitions : transitions'[i] = transitions[i]
                 ELSE /\ size = Len(transitions)
                      /\ \A i \in DOMAIN transitions :
                            /\ i < Min(matches) => transitions'[i] = transitions[i]
                            /\ i > Min(matches) => transitions'[i - 1] = transitions[i]]_vars

\* A plain transition was added again while two stored transitions matched
\* it: the earlier one went, the later one stayed in front of the new one.
C33_Witness ==
    /\ last.op = "addTransition"
    /\ last.arg.event = Undefined
    /\ Len(transitions) >= 2
    /\ transitions[Len(transitions)] = last.arg
    /\ \E i \in 1..(Len(transitions) - 1) :
          /\ matchTransition(transitions[i], last.arg)
          /\ transitions[i] # last.arg

\* C34: removeTransition(p) removes exactly one stored transition, the
\* earliest in insertion order that matches p, and leaves every other stored
\* transition, the later ones that match p among them, in place and in
\* order; when none matches it changes nothing and raises no error.
C34_RemoveTransitionRemovesEarliestMatch ==
    [][IsCall("removeTransition") =>
          LET matches == MatchingIndexes(transitions, last'.arg)
          IN  /\ ~last'.threw
              /\ IF matches = {}
                 THEN transitions' = transitions
                 ELSE /\ Len(transitions') = Len(transitions) - 1
                      /\ \A i \in DOMAIN transitions :
                            /\ i < Min(matches) => transitions'[i] = transitions[i]
                            /\ i > Min(matches) => transitions'[i - 1] = transitions[i]]_vars

\* removeTransition(p) removed a transition and a later one that matches p
\* is still stored, behind a transition that does not match p.
C34_Witness ==
    /\ last.op = "removeTransition"
    /\ ~last.threw
    /\ Len(transitions) = 2
    /\ ~matchTransition(transitions[1], last.arg)
    /\ matchTransition(transitions[2], last.arg)

\* The record of the move that the last call, an undo or a redo, went back
\* or forward over: it keeps the event when the move was made by
\* triggerEvent and no event when it was made by transition.
MoveGoneOver ==
    LET h == last.before
    IN  IF last.op = "undoTransition" THEN h.stack[h.index + 1] ELSE h.stack[h.index]

\* The older and the newer state of that move.
OlderEnd == IF last.op = "undoTransition" THEN getState(history) ELSE CalledFrom
NewerEnd == IF last.op = "undoTransition" THEN CalledFrom ELSE getState(history)

\* C35 as claimed: an undo or redo notification carries an event key exactly
\* when the move being undone or redone was made by triggerEvent, and the
\* event is then the one that was triggered; a move made by transition(state)
\* is undone and redone without an event in the payload.
C35_UndoRedoEventIsTheMovesEvent ==
    (last.op \in {"undoTransition", "redoTransition"} /\ last.rounds = 1) =>
        DeliveredEvent(MoveGoneOver.event)

\* C35 as amended: an undo or redo notification carries an event key exactly
\* when the earliest registered transition from the older to the newer state
\* whose guard passes at the time of the undo or redo carries an event tag,
\* and the event is that tag, however the move was made.
C35_UndoRedoEventIsTheTransitionsTag ==
    (last.op \in {"undoTransition", "redoTransition"} /\ last.rounds = 1) =>
        /\ Connecting(OlderEnd, NewerEnd) # 0
        /\ DeliveredEvent(transitions[Connecting(OlderEnd, NewerEnd)].event)
        /\ Len(last.calls) = Len(subscribers)

\* A move made by transition(state) was undone and the subscriber was told
\* the event of the registered transition.
C35_Witness ==
    /\ last.op = "undoTransition"
    /\ last.rounds = 1
    /\ Len(last.calls) = 1
    /\ MoveGoneOver.event = Undefined
    /\ "event" \in DOMAIN last.calls[1].payload

\* The stored transitions of an event that a transition given to
\* addTransition, or a predicate, matches.
OfEventAndMatching(name, predicate) ==
    {i \in DOMAIN transitions :
        transitions[i].event = name /\ matchTransition(transitions[i], predicate)}

\* C36 as claimed: once addEvent(name, ts) has succeeded, hasEvent(name) stays
\* true and triggerEvent(name) does not raise the unknown-event error until a
\* removeEvent or removeTransition call removes the event's transitions; no
\* addTransition call and no addEvent call for another event name
\* unregisters the event.
C36_EventStaysUntilRemoved ==
    [][\A name \in RegistryEvents :
          hasEvent(transitions, name) =>
              /\ ~hasEvent(transitions', name) =>
                     last'.op \in {"removeEvent", "removeTransition"}
              /\ (IsCall("triggerEvent") /\ last'.arg = name /\ last'.threw) =>
                     ~hasTransition(transitions,
                                    Predicate(Undefined, getState(history), Undefined))]_vars

\* C36 as amended: a registered event stays registered, and triggerEvent(name)
\* throws only when the current state has no outgoing transition, until
\* removeEvent(name), a removeTransition whose predicate matches a transition
\* of the event, or an addTransition of a transition without an event tag
\* (event undefined or null) that matches a transition of the event by from
\* and to removes the last transition of the event; an add of a transition
\* tagged with another event name, hence addEvent and addEvents for other
\* events, never unregisters it.
C36_EventStaysUntilRemovedOrReplaced ==
    [][\A name \in RegistryEvents :
          hasEvent(transitions, name) =>
              /\ ~hasEvent(transitions', name) =>
                     \/ last'.op = "removeEvent" /\ last'.arg = name
                     \/ /\ last'.op = "removeTransition"
                        /\ OfEventAndMatching(name, last'.arg) # {}
                     \/ /\ last'.op = "addTransition"
                        /\ last'.arg.event \in {Undefined, Null}
                        /\ OfEventAndMatching(name, last'.arg) # {}
              /\ (IsCall("triggerEvent") /\ last'.arg = name /\ last'.threw) =>
                     ~hasTransition(transitions,
                                    Predicate(Undefined, getState(history), Undefined))]_vars

\* The event ignite was triggered, and now addTransition of a plain
\* transition has left the registry without a transition of the event.
C36_Witness ==
    /\ last.op = "addTransition"
    /\ last.arg.event = Undefined
    /\ transitions = << last.arg >>
    /\ ~hasEvent(transitions, "ignite")
    /\ getCurrentRecord(history).event = "ignite"
    /\ last.arg.from = "parked"
    /\ last.arg.to = getState(history)

\* C37: if a subscriber unsubscribes itself or another subscriber while a
\* notification round is in progress, every other callback that was
\* registered when the round started and has not itself been unsubscribed is
\* still invoked exactly once (per registration) in that round.
C37_UnsubscribeInRoundSkipsNoOne ==
    [][(last'.op \in MovingCalls /\ last'.rounds = 1 /\ subscribers' # subscribers) =>
          \A fn \in LeavingCallbacks :
              (/\ Registrations(subscribers, fn) > 0
               /\ Registrations(subscribers', fn) = Registrations(subscribers, fn)) =>
                  Invocations(last'.calls, fn) = Registrations(subscribers, fn)]_vars

\* The delivery whose callback made the move of round n, when a callback
\* made it: rounds are numbered as their moves are committed, so it is the
\* delivery with a successful reaction at which n - 1 rounds had begun.
Maker(n) ==
    LET makers == {k \in DOMAIN Log :
                      /\ Succeeds(ReactionAt(k), Log[k].state)
                      /\ Log[Latest(k)].round + 1 = n}
    IN  IF makers = {} THEN 0 ELSE Min(makers)

\* The delivery of round r inside whose callback the move of round n was
\* made, directly or through further nested moves; 0 when there is none.
RECURSIVE Within(_, _)
Within(n, r) ==
    IF n <= r \/ Maker(n) = 0 THEN 0
    ELSE IF Log[Maker(n)].round = r THEN Maker(n)
    ELSE Within(Log[Maker(n)].round, r)

\* C38 as claimed: every subscriber receives the notifications of committed
\* moves in the order in which the moves were committed, also when a
\* subscriber makes a nested move during a round.
C38_NotificationsInCommitOrder ==
    (IsMove /\ ~last.threw) =>
        \A a, c \in DOMAIN Log :
            (/\ Log[a].subscriber = Log[c].subscriber
             /\ Log[a].round < Log[c].round) => a < c

\* C38 as amended: a subscriber receives the notifications of two committed
\* moves in commit order, except when the later move was made, directly or
\* through further nested moves, by a callback that the round of the earlier
\* move invoked before it: then it receives the notification of the later
\* move first.
C38_NestedMovesAreNotifiedFirst ==
    (IsMove /\ ~last.threw) =>
        \A a, c \in DOMAIN Log :
            (/\ Log[a].subscriber = Log[c].subscriber
             /\ Log[a].round < Log[c].round) =>
                LET maker == Within(Log[c].round, Log[a].round)
                IN  IF maker # 0 /\ maker < a THEN c < a ELSE a < c

\* subscriberA, registered after shifter, was told of the nested move to
\* first_gear before it was told of the move to idling that came first.
C38_Witness ==
    /\ IsMove
    /\ ~last.threw
    /\ \E a, c \in DOMAIN Log :
          /\ Log[a].subscriber = "subscriberA"
          /\ Log[c].subscriber = "subscriberA"
          /\ Log[a].round < Log[c].round
          /\ c < a
          /\ Log[a].payload.to = "idling"
          /\ Log[c].payload.to = "first_gear"

\* undoTransition() called again and again, at most `calls` times, from a
\* history: the history it ends in and the calls that changed the state.
RECURSIVE UndoRun(_, _)
UndoRun(h, calls) ==
    LET result == Transitioner_undoTransition(transitions, h, conditions)
    IN  IF calls = 0 \/ ~result.called
        THEN [history |-> h, changes |-> 0]
        ELSE LET rest == UndoRun(result.history, calls - 1)
             IN  [rest EXCEPT !.changes = @ + 1]

RECURSIVE RedoRun(_, _)
RedoRun(h, calls) ==
    LET result == Transitioner_redoTransition(transitions, h, conditions)
    IN  IF calls = 0 \/ ~result.called
        THEN [history |-> h, changes |-> 0]
        ELSE LET rest == RedoRun(result.history, calls - 1)
             IN  [rest EXCEPT !.changes = @ + 1]

\* C39: from any reachable state, undoTransition() repeated with no other
\* call in between changes the state at most length(stack) - 1 times, hence
\* at most 49 times, and then canUndo() is false and a further undo changes
\* nothing; redoTransition() repeated changes the state at most cursor times
\* and then a further redo changes nothing.
C39_RepeatedUndoRedoStop ==
    LET size == Len(history.stack)
        undone == UndoRun(history, size)
        redone == RedoRun(history, size)
    IN  /\ undone.changes <= size - 1
        /\ undone.changes <= HistoryLimit - 1
        /\ ~canUndo(transitions, undone.history, conditions)
        /\ Transitioner_undoTransition(transitions, undone.history, conditions)
               = Ignored(undone.history)
        /\ undone.history.stack = history.stack
        /\ redone.changes <= history.index
        /\ ~canRedo(transitions, redone.history, conditions)
        /\ Transitioner_redoTransition(transitions, redone.history, conditions)
               = Ignored(redone.history)
        /\ redone.history.stack = history.stack

\* A full stack with the cursor in the middle: forty-nine records can be
\* gone over, some by undo and the others by redo.
C39_Witness ==
    /\ Len(history.stack) = HistoryLimit
    /\ history.index > 0
    /\ UndoRun(history, HistoryLimit).changes + RedoRun(history, HistoryLimit).changes
           = HistoryLimit - 1
    /\ UndoRun(history, HistoryLimit).changes > 0

\* C40: each pair of adjacent history records is such that, when the newer
\* record was committed, the current state was the state of the older record
\* and a registered transition from the older state to the newer state was
\* executable; undo, redo, the truncation of the redo branch and the
\* eviction of the oldest record keep it so.  Step by step: the records
\* change only when a move commits; the new record is then put in front of
\* the record that was current, a registered transition from that state to
\* the new one passes its guard, and the records behind it stay adjacent as
\* they were.
C40_AdjacentRecordsWereConnected ==
    [][history'.stack # history.stack =>
          LET newer == history'.stack[1]
              kept == SubSeq(history.stack, history.index + 1, Len(history.stack))
          IN  /\ last'.op \in {"transition", "triggerEvent"}
              /\ ~last'.threw
              /\ history'.index = 0
              /\ Len(history'.stack) >= 2
              /\ Len(history'.stack) <= Len(kept) + 1
              /\ history'.stack[2] = getCurrentRecord(history)
              /\ \E t \in Registered :
                    /\ t.from = getState(history)
                    /\ t.to = newer.state
                    /\ Passes(t)
              /\ \A i \in 2..Len(history'.stack) : history'.stack[i] = kept[i - 1]]_vars

\* A move committed after an undo, with the stack almost full: the redo
\* branch went and the new record sits in front of the record that was
\* current.
C40_Witness ==
    /\ last.op = "triggerEvent"
    /\ ~last.threw
    /\ last.before.index > 0
    /\ Len(last.before.stack) = HistoryLimit
    /\ history.index = 0
    /\ Len(history.stack) = HistoryLimit - last.before.index + 1
    /\ history.stack[2] = getCurrentRecord(last.before)

====
